---- MODULE Spec2Model ----
(***************************************************************************)
(* Presence lifecycle of ImmersClient (enter / exit / move, the reconnect  *)
(* handler enterBound) together with the session operations that create    *)
(* and drop the Activities instance and the ImmersSocket.                  *)
(*                                                                         *)
(* Scheduling: JavaScript, single threaded.  One step of the model is one  *)
(* run-to-completion stretch of a call: from its invocation, or from the   *)
(* arrival of a network response, up to the next await of a network        *)
(* request.  The hosting application issues its calls one at a time        *)
(* (tasks[Caller]); listeners of 'immers-socket-connect' run as tasks of   *)
(* their own (tasks[h], h in Handlers) and interleave with the caller.     *)
(*                                                                         *)
(* Configuration modelled: no local immer, destinations given as objects   *)
(* (resolved without a failing fetch), actor outbox on the home immer.     *)
(*                                                                         *)
(* Eleven specifications share the variables: Spec (the presence lifecycle *)
(* above), ClientSpec (the Activities client: trust check, object fetch,   *)
(* posts, pagination), FriendsSpec (the friends list), OutboxSpec (what    *)
(* the builders hand to postActivity and postMedia), RelationsSpec         *)
(* (addFriend and removeFriend over the stored friend statuses),           *)
(* MessagesSpec (MessageFromActivity, feed and the new-message event),     *)
(* BlockSpec (blockList), CorsSpec (corsProxyFetch), SessionSpec           *)
(* (restoreSession, loginWithToken, disconnect and the socket listeners),  *)
(* FeedSpec (feed over the paginated inbox and outbox) and ResolveSpec     *)
(* (resolveProfileIRI and its cache).                                      *)
(* Each leaves the variables it does not use parked.                       *)
(***************************************************************************)
EXTENDS Integers, Sequences, FiniteSets, TLC

NumPlaces == 2
MaxSockets == 1
MaxHandlers == 1
MaxArrivals == 2

Undefined == 0
Caller == 0
Places == 1..NumPlaces
SocketIds == 1..MaxSockets
Handlers == 1..MaxHandlers
PostLocation == "postLocation"
Scopes == {PostLocation}

VARIABLES connected, credential, place, activities, streaming, sockets, tasks,
          posted, arrivals, lastArrive,
          instance, request, network, history, friends, outbox, messages

presenceVars == <<connected, credential, place, activities, streaming, sockets,
                  tasks, posted, arrivals, lastArrive>>

(* instance: one Activities object; request: the call in progress on it;    *)
(* network: the requests that call has sent; history: what earlier calls    *)
(* fetched; friends: a friends collection and the list derived from it;     *)
(* outbox: the activity the call in progress handed to postActivity or      *)
(* postMedia, with the caller's arguments; messages: activities and the     *)
(* Messages derived from them.                                              *)
clientVars == <<instance, request, network, history, friends, outbox, messages>>

vars == <<connected, credential, place, activities, streaming, sockets, tasks,
          posted, arrivals, lastArrive,
          instance, request, network, history, friends, outbox, messages>>

Parked == "parked"

ClientParked ==
    /\ instance = Parked
    /\ request = Parked
    /\ network = Parked
    /\ history = Parked
    /\ friends = Parked
    /\ outbox = Parked
    /\ messages = Parked

(* ----- records ----- *)

NoCredential == [present |-> FALSE, authorizedScopes |-> {}]
NoActivities == [defined |-> FALSE, place |-> Undefined]
NoSocket == [live |-> FALSE, connected |-> FALSE, listeners |-> 0, leave |-> Undefined]
NewImmersSocket == [live |-> TRUE, connected |-> FALSE, listeners |-> 0, leave |-> Undefined]
NewActivities(p) == [defined |-> TRUE, place |-> p]
IdleTask == [op |-> "none", pc |-> "idle", dest |-> Undefined, old |-> Undefined,
             posts |-> <<>>, ret |-> "void"]
NewTask(op, dest, old) == [op |-> op, pc |-> "run", dest |-> dest, old |-> old,
                           posts |-> <<>>, ret |-> "void"]

Pending == {"awaitActor", "setPlace", "awaitArrive", "awaitLeave"}

(* posted: the requests this step sends to the outbox; arrivals: Arrive     *)
(* requests sent since the hosting application's latest call began;        *)
(* lastArrive: target of the latest Arrive request.                        *)
W == [connected |-> connected, credential |-> credential, place |-> place,
      activities |-> activities, streaming |-> streaming, sockets |-> sockets,
      tasks |-> tasks, posted |-> <<>>, arrivals |-> arrivals,
      lastArrive |-> lastArrive]

Become(w) ==
    /\ w.arrivals <= MaxArrivals
    /\ arrivals' = w.arrivals
    /\ lastArrive' = w.lastArrive
    /\ connected' = w.connected
    /\ credential' = w.credential
    /\ place' = w.place
    /\ activities' = w.activities
    /\ streaming' = w.streaming
    /\ sockets' = w.sockets
    /\ tasks' = w.tasks
    /\ posted' = w.posted
    /\ UNCHANGED clientVars

(* ----- Activities ----- *)

ArriveActivity(w) == [type |-> "Arrive", target |-> w.activities.place]

LeaveActivityTypedArrive(w) == [type |-> "Arrive", target |-> w.activities.place]

LeaveActivity(w) == [type |-> "Leave", target |-> w.activities.place]

PostActivity(w, t, activity) ==
    [w EXCEPT !.posted = Append(@, activity),
              !.tasks[t].posts = IF t = Caller THEN Append(@, activity) ELSE @,
              !.arrivals = IF activity.type = "Arrive" THEN @ + 1 ELSE @,
              !.lastArrive = IF activity.type = "Arrive" THEN activity.target ELSE @]

(* ----- ImmersSocket / EventTarget ----- *)

AddEventListenerFreshClosure(n) == n + 1

AddEventListener(n) == IF n >= 1 THEN n ELSE 1

RemoveEventListener(n) == IF n >= 1 THEN n - 1 ELSE 0

PrepareLeaveOnDisconnect(w) ==
    [w EXCEPT !.sockets[w.streaming].leave = w.place]

ClearLeaveOnDisconnect(w) ==
    [w EXCEPT !.sockets[w.streaming].leave = Undefined]

AddEnterBoundSkipped(w) == w

AddEnterBound(w) ==
    [w EXCEPT !.sockets[w.streaming].listeners = AddEventListener(@)]

RemoveEnterBound(w) ==
    [w EXCEPT !.sockets[w.streaming].listeners = RemoveEventListener(@)]

(* ----- ImmersClient ----- *)

Settle(w, t, pc) ==
    IF t = Caller
    THEN [w EXCEPT !.tasks[t].pc = pc, !.tasks[t].dest = Undefined, !.tasks[t].old = Undefined]
    ELSE [w EXCEPT !.tasks[t] = [IdleTask EXCEPT !.pc = pc]]

Throw(w, t) == Settle(w, t, "failed")

Return(w, t) == Settle(w, t, "done")

Await(w, t, pc) == [w EXCEPT !.tasks[t].pc = pc]

IsConnectedUnchecked(w) == TRUE

IsConnected(w) == w.connected

MayPostLocationUnchecked(w) == TRUE

MayPostLocation(w) == PostLocation \in w.credential.authorizedScopes

SetPlaceFromDestinationClientOnly(w, dest) == [w EXCEPT !.place = dest]

SetPlaceFromDestination(w, dest) ==
    [w EXCEPT !.place = dest,
              !.activities.place = IF w.activities.defined THEN dest ELSE @]

EnterAnnounce(w, t) ==
    IF ~w.activities.defined \/ w.streaming = Undefined THEN Throw(w, t)
    ELSE IF w.sockets[w.streaming].connected
    THEN Await(PostActivity(w, t, ArriveActivity(w)), t, "awaitArrive")
    ELSE Return(AddEnterBound(w), t)

EnterBody(w, t) ==
    IF ~IsConnected(w) THEN Throw(w, t)
    ELSE IF ~MayPostLocation(w) THEN Return(w, t)
    ELSE EnterAnnounce(w, t)

Enter(w, t, dest) ==
    IF dest # Undefined
    THEN EnterBody(SetPlaceFromDestination(w, dest), t)
    ELSE EnterBody(w, t)

EnterAfterArrive(w, t) ==
    IF w.streaming = Undefined THEN Throw(w, t)
    ELSE Return(AddEnterBound(PrepareLeaveOnDisconnect(w)), t)

Exit(w, t) ==
    IF ~IsConnected(w) THEN Throw(w, t)
    ELSE IF ~MayPostLocation(w) THEN Return(w, t)
    ELSE IF ~w.activities.defined THEN Throw(w, t)
    ELSE Await(PostActivity(w, t, LeaveActivity(w)), t, "awaitLeave")

ExitCleanup(w) == RemoveEnterBound(ClearLeaveOnDisconnect(w))

ExitAfterLeave(w, t) ==
    IF w.streaming = Undefined THEN Throw(w, t)
    ELSE Return(ExitCleanup(w), t)

Move(w, t) ==
    IF ~IsConnected(w) THEN Throw(w, t)
    ELSE IF ~MayPostLocation(w) THEN Return(w, t)
    ELSE Exit(w, t)

MoveAfterExitNoDestination(w, t) ==
    IF w.streaming = Undefined THEN Throw(w, t)
    ELSE Enter(ExitCleanup(w), t, Undefined)

MoveAfterExit(w, t) ==
    IF w.streaming = Undefined THEN Throw(w, t)
    ELSE Enter(ExitCleanup(w), t, w.tasks[t].dest)

FreeSocket(w) ==
    CHOOSE s \in SocketIds :
        /\ ~w.sockets[s].live
        /\ \A r \in SocketIds : r < s => w.sockets[r].live

SetupAfterLogin(w) ==
    LET s == FreeSocket(w)
    IN [w EXCEPT !.connected = TRUE,
                 !.activities = NewActivities(w.place),
                 !.streaming = s,
                 !.sockets[s] = NewImmersSocket]

Disconnect(w, t) ==
    IF w.streaming = Undefined THEN Throw(w, t)
    ELSE Return([w EXCEPT !.sockets[w.streaming] = NoSocket,
                          !.streaming = Undefined,
                          !.activities = NoActivities,
                          !.connected = FALSE], t)

(* ----- dispatch of 'immers-socket-connect' ----- *)

FreeHandlers(w) == {h \in Handlers : w.tasks[h].pc \notin Pending}

FreeHandler(w) ==
    CHOOSE h \in FreeHandlers(w) : \A g \in FreeHandlers(w) : h <= g

EnterBound(w) ==
    LET h == FreeHandler(w)
        x == EnterBody([w EXCEPT !.tasks[h] = NewTask("enterBound", Undefined, Undefined)], h)
    IN IF x.tasks[h].pc \in Pending THEN x
       ELSE [x EXCEPT !.tasks[h] = IdleTask]

RECURSIVE DispatchConnect(_, _)
DispatchConnect(w, n) ==
    IF n = 0 THEN w ELSE DispatchConnect(EnterBound(w), n - 1)

(* ----- initial state: constructed, not logged in ----- *)

Init ==
    /\ connected = FALSE
    /\ credential = NoCredential
    /\ place \in Places
    /\ activities = NoActivities
    /\ streaming = Undefined
    /\ sockets = [s \in SocketIds |-> NoSocket]
    /\ tasks = [t \in {Caller} \cup Handlers |-> IdleTask]
    /\ posted = <<>>
    /\ arrivals = 0
    /\ lastArrive = Undefined
    /\ ClientParked

(* ----- calls of the hosting application ----- *)

CallerIdle == tasks[Caller].pc \notin Pending

Call(op, dest) ==
    [W EXCEPT !.tasks[Caller] = NewTask(op, dest, place), !.arrivals = 0]

RestoreSession(w, t) ==
    IF ~w.credential.present
    THEN [Return(w, t) EXCEPT !.tasks[t].ret = "false"]
    ELSE Await(w, t, "awaitActor")

CallRestoreSession ==
    /\ CallerIdle
    /\ Become(RestoreSession(Call("restoreSession", Undefined), Caller))

CallLoginWithToken ==
    /\ CallerIdle
    /\ \E scopes \in SUBSET Scopes :
        Become(RestoreSession(
            [Call("loginWithToken", Undefined) EXCEPT
                !.credential = [present |-> TRUE, authorizedScopes |-> scopes]], Caller))

TokenToActorResponse ==
    /\ tasks[Caller].pc = "awaitActor"
    /\ \/ /\ \E s \in SocketIds : ~sockets[s].live
          /\ Become([Return(SetupAfterLogin(W), Caller) EXCEPT !.tasks[Caller].ret = "true"])
       \/ Become([Return(W, Caller) EXCEPT !.tasks[Caller].ret = "false"])

CallEnter ==
    /\ CallerIdle
    /\ \E dest \in Places \cup {Undefined} :
        Become(Enter(Call("enter", dest), Caller, dest))

CallExit ==
    /\ CallerIdle
    /\ Become(Exit(Call("exit", Undefined), Caller))

CallMove ==
    /\ CallerIdle
    /\ \E dest \in Places :
        Become(Move(Call("move", dest), Caller))

CallDisconnect ==
    /\ CallerIdle
    /\ Become(Disconnect(Call("disconnect", Undefined), Caller))

(* ----- responses of the home immer to outbox posts ----- *)

ArriveResponse(t) ==
    /\ tasks[t].pc = "awaitArrive"
    /\ \/ Become(EnterAfterArrive(W, t))
       \/ Become(Throw(W, t))

LeaveResponse ==
    /\ tasks[Caller].pc = "awaitLeave"
    /\ \/ Become(IF tasks[Caller].op = "move"
                 THEN MoveAfterExit(W, Caller)
                 ELSE ExitAfterLeave(W, Caller))
       \/ Become(Throw(W, Caller))

(* ----- the real-time channel ----- *)

SocketConnect(s) ==
    /\ sockets[s].live
    /\ ~sockets[s].connected
    /\ Cardinality(FreeHandlers(W)) >= sockets[s].listeners
    /\ Become(DispatchConnect([W EXCEPT !.sockets[s].connected = TRUE],
                              sockets[s].listeners))

SocketDrop(s) ==
    /\ sockets[s].live
    /\ sockets[s].connected
    /\ Become([W EXCEPT !.sockets[s].connected = FALSE])

Next ==
    \/ CallRestoreSession
    \/ CallLoginWithToken
    \/ TokenToActorResponse
    \/ CallEnter
    \/ CallExit
    \/ CallMove
    \/ CallDisconnect
    \/ \E t \in {Caller} \cup Handlers : ArriveResponse(t)
    \/ LeaveResponse
    \/ \E s \in SocketIds : SocketConnect(s)
    \/ \E s \in SocketIds : SocketDrop(s)

Spec == Init /\ [][Next]_vars

(* ----- vocabulary of the properties ----- *)

Arrive(p) == [type |-> "Arrive", target |-> p]

Leave(p) == [type |-> "Leave", target |-> p]

Authorized == PostLocation \in credential.authorizedScopes

ChannelConnected == streaming # Undefined /\ sockets[streaming].connected

Calls(op) ==
    /\ tasks[Caller].pc \notin Pending
    /\ tasks'[Caller] # tasks[Caller]
    /\ tasks'[Caller].op = op

Completes(t) == tasks[t].pc = "awaitArrive" /\ tasks'[t].pc = "done"

LeaveCount(seq) == Cardinality({i \in DOMAIN seq : seq[i].type = "Leave"})

(* C1: a call of enter() by a logged-in client authorized for postLocation, *)
(* made while the real-time channel is connected, sends exactly one Arrive  *)
(* whose target is the client's current Place; when that call returns it    *)
(* has sent nothing else, leave-on-disconnect is armed with that same Place *)
(* and the reconnect handler is registered (once).                          *)
C1_EnterAnnouncesArmsRegisters ==
    [][ /\ (Calls("enter") /\ connected /\ Authorized /\ ChannelConnected)
            => /\ posted' = <<Arrive(place')>>
               /\ tasks'[Caller].posts = <<Arrive(place')>>
               /\ tasks'[Caller].pc = "awaitArrive"
        /\ (tasks[Caller].op = "enter" /\ Completes(Caller))
            => /\ tasks[Caller].posts = <<Arrive(place)>>
               /\ tasks'[Caller].posts = tasks[Caller].posts
               /\ posted' = <<>>
               /\ place' = place
               /\ sockets'[streaming'].leave = place
               /\ sockets'[streaming'].listeners = 1
      ]_vars

C1_Witness ==
    /\ tasks[Caller].op = "enter"
    /\ tasks[Caller].pc = "done"
    /\ tasks[Caller].posts = <<Arrive(place)>>
    /\ ChannelConnected
    /\ sockets[streaming].leave = place
    /\ sockets[streaming].listeners = 1

(* C2: move(newPlace) by a logged-in, authorized client first sends exactly *)
(* one Leave whose target is the old Place; only when that Leave has been   *)
(* answered, and with the real-time channel connected, it sends exactly one *)
(* Arrive whose target is the new Place: the requests of one move are, in   *)
(* order, Leave(old) then Arrive(new).  While the Leave is unanswered,      *)
(* whatever else is sent is an Arrive for the old Place.                    *)
C2_MoveLeavesOldThenArrivesNew ==
    [][ /\ (Calls("move") /\ connected /\ Authorized)
            => /\ posted' = <<Leave(place)>>
               /\ tasks'[Caller].posts = <<Leave(place)>>
               /\ tasks'[Caller].old = place
               /\ tasks'[Caller].pc = "awaitLeave"
        /\ (/\ tasks[Caller].op = "move"
            /\ tasks[Caller].pc = "awaitLeave"
            /\ tasks'[Caller].pc \notin {"awaitLeave", "failed"}
            /\ ChannelConnected)
            => /\ posted' = <<Arrive(tasks[Caller].dest)>>
               /\ place' = tasks[Caller].dest
               /\ tasks'[Caller].pc = "awaitArrive"
        /\ (/\ tasks[Caller].op = "move"
            /\ tasks[Caller].pc = "awaitLeave"
            /\ tasks'[Caller].pc = "awaitLeave")
            => \A i \in DOMAIN posted' :
                   posted'[i] = Arrive(tasks[Caller].old)
        /\ (tasks[Caller].op = "move" /\ Completes(Caller))
            => /\ tasks'[Caller].posts =
                      <<Leave(tasks[Caller].old), Arrive(tasks[Caller].dest)>>
               /\ place = tasks[Caller].dest
               /\ posted' = <<>>
      ]_vars

C2_Witness ==
    /\ tasks[Caller].op = "move"
    /\ tasks[Caller].pc = "done"
    /\ Len(tasks[Caller].posts) = 2
    /\ tasks[Caller].posts[1].type = "Leave"
    /\ tasks[Caller].posts[2] = Arrive(place)
    /\ tasks[Caller].posts[1].target # place
    /\ ChannelConnected

(* C3: the reconnect handler is registered at most once on a socket; while  *)
(* it is registered on the client's channel and the client is logged in and *)
(* authorized, each connect notification of that channel sends exactly one  *)
(* Arrive for the current Place, and each handler run whose Arrive is       *)
(* accepted arms leave-on-disconnect with the current Place and leaves the  *)
(* handler registered once.                                                 *)
C3_ReconnectReannouncesOnce ==
    [][ /\ \A s \in SocketIds : sockets'[s].listeners <= 1
        /\ (/\ streaming # Undefined
            /\ streaming' = streaming
            /\ ~sockets[streaming].connected
            /\ sockets'[streaming].connected
            /\ sockets[streaming].listeners >= 1
            /\ connected
            /\ Authorized)
            => posted' = <<Arrive(place)>>
        /\ \A h \in Handlers : Completes(h)
            => /\ posted' = <<>>
               /\ sockets'[streaming'].leave = place
               /\ sockets'[streaming'].listeners = 1
      ]_vars

C3_Witness ==
    /\ \E h \in Handlers : tasks[h].pc = "done"
    /\ tasks[Caller].op = "enter"
    /\ tasks[Caller].pc = "done"
    /\ arrivals >= 2
    /\ ChannelConnected
    /\ sockets[streaming].leave = place
    /\ sockets[streaming].listeners = 1
    /\ lastArrive = place
ExitReturned ==
    /\ tasks[Caller].op = "exit"
    /\ tasks[Caller].pc = "done"
    /\ tasks[Caller].posts # <<>>
    /\ streaming # Undefined

(* C4: once a call of exit() by a logged-in, authorized client has          *)
(* returned, and until the hosting application's next call, the reconnect   *)
(* handler is not registered on the client's channel and leave-on-          *)
(* disconnect is disarmed, whatever reconnect-triggered enter() was in      *)
(* flight during the exit().                                                *)
C4_ExitStaysOffline ==
    ExitReturned
        => /\ sockets[streaming].listeners = 0
           /\ sockets[streaming].leave = Undefined

(* C5: a step sends a Leave only when it is the invocation of exit() (by    *)
(* itself or as the first part of move) by a logged-in, authorized client,  *)
(* and that step sends exactly one; no other step (a connect notification,  *)
(* a handler run, the completion of the exit) sends any Leave.              *)
C5_OneLeavePerExit ==
    [][ LeaveCount(posted') =
            IF (Calls("exit") \/ Calls("move")) /\ connected /\ Authorized
            THEN 1 ELSE 0
      ]_vars

C5_Witness ==
    /\ tasks[Caller].op = "exit"
    /\ tasks[Caller].pc = "done"
    /\ tasks[Caller].posts = <<Leave(place)>>
    /\ arrivals >= 1
    /\ \E h \in Handlers : tasks[h].pc = "done"

(* C6: between the invocation of exit() and the hosting application's next  *)
(* call, at most one Arrive is sent, in every interleaving with connect     *)
(* notifications.                                                           *)
C6_AtMostOneArriveAfterExit ==
    tasks[Caller].op = "exit" => arrivals <= 1

C8_NotConnectedFails ==
    [][ \A op \in {"enter", "exit", "move"} :
            (Calls(op) /\ ~connected)
                => /\ tasks'[Caller].pc = "failed"
                   /\ tasks'[Caller].posts = <<>>
                   /\ posted' = <<>>
                   /\ sockets' = sockets
      ]_vars

C8_Witness ==
    /\ tasks[Caller].op = "exit"
    /\ tasks[Caller].pc = "failed"
    /\ tasks[Caller].posts = <<>>
    /\ ~connected
    /\ credential.present
    /\ Authorized

PresenceOffline ==
    /\ streaming # Undefined
    /\ sockets[streaming].listeners = 0
    /\ sockets[streaming].leave = Undefined
    /\ \A h \in Handlers : tasks[h].pc \notin Pending

(* C9: exit() called by a logged-in, authorized client whose presence is    *)
(* Offline (no reconnect handler registered, leave-on-disconnect not armed, *)
(* no enter in flight) fails and sends no Leave.                            *)
C9_ExitWhileOfflineFails ==
    [][ (Calls("exit") /\ connected /\ Authorized /\ PresenceOffline)
            => /\ tasks'[Caller].pc = "failed"
               /\ posted' = <<>>
      ]_vars

(* C10: every time a completing enter() arms leave-on-disconnect, the Place *)
(* it arms with is the target of the most recently sent Arrive.             *)
C10_ArmedPlaceIsLastArrive ==
    [][ \A t \in {Caller} \cup Handlers :
            Completes(t) => sockets'[streaming'].leave = lastArrive'
      ]_vars

EnteredWhileChannelDown ==
    /\ tasks[Caller].op = "enter"
    /\ tasks[Caller].pc = "done"
    /\ tasks[Caller].posts = <<>>
    /\ connected
    /\ Authorized
    /\ streaming # Undefined
    /\ arrivals = 0

(* C36: a call of enter() by a logged-in, authorized client made while the  *)
(* real-time channel is not connected returns without sending anything and  *)
(* leaves the reconnect handler registered on the channel; from then until  *)
(* the hosting application's next call (an exit() among them) the handler   *)
(* stays registered while no Arrive has been sent, and the first connect    *)
(* notification of the channel sends exactly one Arrive, for the current    *)
(* Place.                                                                   *)
C36_DeferredArriveOnConnect ==
    [][ /\ (Calls("enter") /\ connected /\ Authorized /\ ~ChannelConnected)
            => /\ posted' = <<>>
               /\ tasks'[Caller].pc = "done"
               /\ tasks'[Caller].posts = <<>>
               /\ arrivals' = 0
               /\ sockets'[streaming'].listeners = 1
        /\ EnteredWhileChannelDown'
            => /\ sockets'[streaming'].listeners = 1
               /\ ~sockets'[streaming'].connected
        /\ (EnteredWhileChannelDown /\ sockets'[streaming].connected)
            => /\ posted' = <<Arrive(place)>>
               /\ arrivals' = 1
               /\ lastArrive' = place'
               /\ place' = place
      ]_vars

C36_Witness ==
    /\ tasks[Caller].op = "enter"
    /\ tasks[Caller].pc = "done"
    /\ tasks[Caller].posts = <<>>
    /\ connected
    /\ Authorized
    /\ ChannelConnected
    /\ arrivals = 1
    /\ lastArrive = place

(* C40: a call of enter(destination) that fails because the client is not   *)
(* logged in, or returns early because postLocation is not authorized,      *)
(* leaves the client's current Place and the Activity Client's place        *)
(* unchanged.                                                               *)
C40_PlaceKeptWithoutAnnouncement ==
    [][ (Calls("enter") /\ (~connected \/ ~Authorized))
            => /\ place' = place
               /\ activities'.place = activities.place
      ]_vars

(***************************************************************************)
(* The Activities client: trust check, object fetch, posts and the         *)
(* paginated fetch of inbox and outbox.  One call at a time; one step is   *)
(* the stretch of a call up to its next network request.                   *)
(*                                                                         *)
(* A string is a sequence of pieces; the pieces in PathPieces begin the    *)
(* path of a URL, everything before the first of them is its origin.       *)
(***************************************************************************)

MaxPages == 2

HomeOrigin == <<"https://home.example">>
LocalOrigin == <<"https://local.example">>
RemoteOrigin == <<"https://remote.example">>
LookalikeOrigin == <<"https://home.example", ".evil.example">>
PortOrigin == <<"https://home.example", ":8443">>

PageNames == <<"?page=1", "?page=2", "?page=3", "?page=4">>
PathPieces == {"/inbox", "/outbox", "/proxy", "/media", "/note", "/hub"}
              \cup {PageNames[i] : i \in DOMAIN PageNames}

Kinds == {"inbox", "outbox"}

(* ----- JavaScript values ----- *)

Null == [tag |-> "null", val |-> <<>>]
Absent == [tag |-> "undefined", val |-> <<>>]
Str(s) == [tag |-> "string", val |-> s]
Truthy(v) == v.tag = "string" /\ v.val # <<>>

StartsWith(s, prefix) ==
    /\ Len(prefix) <= Len(s)
    /\ SubSeq(s, 1, Len(prefix)) = prefix

RECURSIVE OriginLength(_, _)
OriginLength(url, i) ==
    IF i > Len(url) \/ url[i] \in PathPieces THEN i - 1
    ELSE OriginLength(url, i + 1)

Origin(url) == SubSeq(url, 1, OriginLength(url, 1))

GetURLPart(url, part) == IF part = "origin" THEN Origin(url) ELSE url

(* ----- collections as the server returns them ----- *)

NoCol == [defined |-> FALSE, id |-> <<>>, orderedItems |-> "absent",
          first |-> Absent, next |-> Absent]

Col(id, items, first, next) ==
    [defined |-> TRUE, id |-> id, orderedItems |-> items, first |-> first, next |-> next]

(* ----- Activities ----- *)

NewActivitiesClient(actor, homeImmer, token, localImmer) ==
    [actor |-> actor,
     homeImmer |-> homeImmer,
     token |-> token,
     localImmer |-> IF Truthy(localImmer)
                    THEN Str(GetURLPart(localImmer.val, "origin")) ELSE Absent,
     nextPage |-> [k \in Kinds |-> Null]]

A == [instance |-> instance, request |-> request, network |-> network,
      history |-> history, outbox |-> outbox]

BecomeA(a) ==
    /\ instance' = a.instance
    /\ request' = a.request
    /\ network' = a.network
    /\ history' = a.history
    /\ outbox' = a.outbox
    /\ UNCHANGED <<friends, messages>>
    /\ UNCHANGED presenceVars

(* target: the identifier the call reads or posts to; col: the collection  *)
(* the call holds, which is its result once it is done.                    *)
IdleRequest == [op |-> "none", pc |-> "idle", target |-> <<>>, col |-> NoCol,
                err |-> "none"]

Fail(a, err) == [a EXCEPT !.request.pc = "failed", !.request.err = err]

Suspend(a, pc, target) == [a EXCEPT !.request.pc = pc, !.request.target = target]

FetchTwice(a, req) == [a EXCEPT !.network = Append(Append(@, req), req)]

Fetch(a, req) == [a EXCEPT !.network = Append(@, req)]

TrustedIRI(a, IRI) ==
    \/ Truthy(a.instance.localImmer) /\ StartsWith(IRI, a.instance.localImmer.val)
    \/ StartsWith(IRI, a.instance.homeImmer)

DirectRead(a, IRI) ==
    [method |-> "GET", url |-> IRI, bearer |-> a.instance.token, id |-> Absent]

ProxiedRead(a, IRI) ==
    [method |-> "POST", url |-> a.instance.actor.proxyUrl.val,
     bearer |-> a.instance.token, id |-> Str(IRI)]

GetObjectDirectOnly(a, IRI, pc) == Suspend(Fetch(a, DirectRead(a, IRI)), pc, IRI)

GetObject(a, IRI, pc) ==
    IF TrustedIRI(a, IRI)
    THEN Suspend(Fetch(a, DirectRead(a, IRI)), pc, IRI)
    ELSE IF Truthy(a.instance.actor.proxyUrl)
    THEN Suspend(Fetch(a, ProxiedRead(a, IRI)), pc, IRI)
    ELSE Fail(a, "NoProxy")

OutboxPost(a) ==
    [method |-> "POST", url |-> a.instance.actor.outbox,
     bearer |-> a.instance.token, id |-> Absent]

PostToOutboxUnchecked(a) ==
    Suspend(Fetch(a, OutboxPost(a)), "awaitPost", a.instance.actor.outbox)

PostToOutbox(a) ==
    IF ~TrustedIRI(a, a.instance.actor.outbox)
    THEN Fail(a, "InvalidOutbox")
    ELSE Suspend(Fetch(a, OutboxPost(a)), "awaitPost", a.instance.actor.outbox)

MediaPost(a) ==
    [method |-> "POST", url |-> a.instance.actor.uploadMedia.val,
     bearer |-> a.instance.token, id |-> Absent]

PostMediaUnchecked(a) ==
    IF a.instance.actor.uploadMedia.tag # "string" THEN Fail(a, "TypeError")
    ELSE Suspend(Fetch(a, MediaPost(a)), "awaitMedia", a.instance.actor.uploadMedia.val)

PostMedia(a) ==
    IF a.instance.actor.uploadMedia.tag # "string" THEN Fail(a, "TypeError")
    ELSE IF ~TrustedIRI(a, a.instance.actor.uploadMedia.val)
    THEN Fail(a, "InvalidUpload")
    ELSE Suspend(Fetch(a, MediaPost(a)), "awaitMedia", a.instance.actor.uploadMedia.val)

(* builders that hand their activity to postActivity *)
Builders == {"postActivity", "accept", "add", "arrive", "leave", "block", "create",
             "follow", "image", "note", "reject", "undo", "updateProfile", "video"}

(* create() reads .ok of the Location string postActivity resolved to *)
PostReturned(a) ==
    IF a.request.op = "create" THEN Fail(a, "ErrorCreating")
    ELSE [a EXCEPT !.request.pc = "done"]

(* ----- inbox() and outbox() ----- *)

Root(a, kind) == a.instance.actor[kind]

Finish(a, kind, col) ==
    [a EXCEPT !.instance.nextPage[kind] = IF col.defined THEN col.next ELSE Absent,
              !.request.pc = "done",
              !.request.col = col]

PageWithoutFirst(a, kind, col) == Finish(a, kind, col)

PageAfterRoot(a, kind, col) ==
    IF col.orderedItems = "absent" /\ Truthy(col.first)
    THEN GetObject(a, col.first.val, "awaitFirst")
    ELSE Finish(a, kind, col)

Page(a, kind) ==
    IF a.instance.nextPage[kind] = Null
    THEN GetObject(a, Root(a, kind), "awaitRoot")
    ELSE IF Truthy(a.instance.nextPage[kind])
    THEN GetObject(a, a.instance.nextPage[kind].val, "awaitPage")
    ELSE Finish(a, kind, NoCol)

(* ----- what the server may answer ----- *)

PageIRI(a, kind, i) == Root(a, kind) \o <<PageNames[i]>>

NextValues(a, kind, i) ==
    {Absent, Null, Str(<<>>)}
        \cup (IF i < MaxPages THEN {Str(PageIRI(a, kind, i + 1))} ELSE {})

RootCols(a, kind) ==
    {Col(Root(a, kind), "absent", Str(PageIRI(a, kind, 1)), Absent),
     Col(Root(a, kind), "absent", Absent, Absent),
     Col(Root(a, kind), "empty", Str(PageIRI(a, kind, 1)), Absent)}
        \cup {Col(Root(a, kind), "items", Absent, n) : n \in NextValues(a, kind, 0)}

PageCols(a, kind, IRI) ==
    LET i == CHOOSE j \in 1..MaxPages : PageIRI(a, kind, j) = IRI
    IN {Col(IRI, "items", Absent, n) : n \in NextValues(a, kind, i)}

Receive(a, kind, col) ==
    [a EXCEPT !.request.col = col,
              !.history.refetched = @ \/ col.id \in a.history.fetched,
              !.history.fetched = @ \cup {col.id},
              !.history.lastNext[kind] = col.next]

(* ----- initial state: a freshly constructed Activities client ----- *)

NotFetched == [tag |-> "none", val |-> <<>>]

Actors ==
    {[inbox |-> HomeOrigin \o <<"/inbox">>, outbox |-> HomeOrigin \o <<"/outbox">>,
      proxyUrl |-> Str(HomeOrigin \o <<"/proxy">>),
      uploadMedia |-> Str(HomeOrigin \o <<"/media">>)],
     [inbox |-> HomeOrigin \o <<"/inbox">>, outbox |-> LookalikeOrigin \o <<"/outbox">>,
      proxyUrl |-> Absent,
      uploadMedia |-> Str(PortOrigin \o <<"/media">>)],
     [inbox |-> HomeOrigin \o <<"/inbox">>, outbox |-> RemoteOrigin \o <<"/outbox">>,
      proxyUrl |-> Str(HomeOrigin \o <<"/proxy">>),
      uploadMedia |-> Str(RemoteOrigin \o <<"/media">>)],
     [inbox |-> HomeOrigin \o <<"/inbox">>, outbox |-> LocalOrigin \o <<"/outbox">>,
      proxyUrl |-> Absent,
      uploadMedia |-> Absent]}

LocalImmers == {Absent, Str(LocalOrigin \o <<"/hub">>)}

ObjectIRIs ==
    {HomeOrigin \o <<"/note">>, LocalOrigin \o <<"/note">>, RemoteOrigin \o <<"/note">>,
     LookalikeOrigin \o <<"/note">>, PortOrigin \o <<"/note">>}

PresenceParked ==
    /\ connected = FALSE
    /\ credential = NoCredential
    /\ place = Undefined
    /\ activities = NoActivities
    /\ streaming = Undefined
    /\ sockets = [s \in SocketIds |-> NoSocket]
    /\ tasks = [t \in {Caller} \cup Handlers |-> IdleTask]
    /\ posted = <<>>
    /\ arrivals = 0
    /\ lastArrive = Undefined

ClientInit ==
    /\ \E actor \in Actors, localImmer \in LocalImmers :
           instance = NewActivitiesClient(actor, HomeOrigin, TRUE, localImmer)
    /\ request = IdleRequest
    /\ network = <<>>
    /\ history = [fetched |-> {}, refetched |-> FALSE,
                  lastNext |-> [k \in Kinds |-> NotFetched]]
    /\ friends = Parked
    /\ outbox = Parked
    /\ messages = Parked
    /\ PresenceParked

(* ----- calls ----- *)

RequestIdle == request.pc \in {"idle", "done", "failed"}

Begin(op) ==
    [A EXCEPT !.request = [IdleRequest EXCEPT !.op = op, !.pc = "run"],
              !.network = <<>>]

CallPage(kind) ==
    /\ RequestIdle
    /\ BecomeA(Page(Begin(kind), kind))

CallGetObject ==
    /\ RequestIdle
    /\ \E IRI \in ObjectIRIs : BecomeA(GetObject([Begin("getObject") EXCEPT !.request.target = IRI],
                             IRI, "awaitObject"))

CallBuilder ==
    /\ RequestIdle
    /\ \E b \in Builders : BecomeA(PostToOutbox(Begin(b)))

CallPostMedia ==
    /\ RequestIdle
    /\ \E op \in {"postMedia", "model"} : BecomeA(PostMedia(Begin(op)))

(* ----- responses ----- *)

RemoteError ==
    /\ request.pc \in {"awaitRoot", "awaitFirst", "awaitPage", "awaitObject",
                       "awaitPost", "awaitMedia"}
    /\ BecomeA(Fail(A, "RemoteError"))

RootResponse ==
    /\ request.pc = "awaitRoot"
    /\ \E col \in RootCols(A, request.op) :
           BecomeA(PageAfterRoot(Receive(A, request.op, col), request.op, col))

PageResponse ==
    /\ request.pc \in {"awaitFirst", "awaitPage"}
    /\ \E col \in PageCols(A, request.op, request.target) :
           BecomeA(Finish(Receive(A, request.op, col), request.op, col))

ObjectResponse ==
    /\ request.pc = "awaitObject"
    /\ BecomeA([A EXCEPT !.request.pc = "done"])

PostResponse ==
    /\ request.pc = "awaitPost"
    /\ BecomeA(PostReturned(A))

MediaResponse ==
    /\ request.pc = "awaitMedia"
    /\ BecomeA([A EXCEPT !.request.pc = "done"])

ClientNext ==
    \/ \E kind \in Kinds : CallPage(kind)
    \/ CallGetObject
    \/ CallBuilder
    \/ CallPostMedia
    \/ RemoteError
    \/ RootResponse
    \/ PageResponse
    \/ ObjectResponse
    \/ PostResponse
    \/ MediaResponse

ClientSpec == ClientInit /\ [][ClientNext]_vars

(* ----- vocabulary of the properties ----- *)

Cursor(kind) == instance.nextPage[kind]

Exhausted(v) == ~Truthy(v) /\ v # Null

ClientCalls(op) ==
    /\ RequestIdle
    /\ request'.op = op
    /\ clientVars' # clientVars

OriginTrusted(IRI) ==
    \/ Origin(IRI) = instance.homeImmer
    \/ instance.localImmer.tag = "string" /\ Origin(IRI) = instance.localImmer.val

Reads(IRI) ==
    IF TrustedIRI(A, IRI)
    THEN [method |-> "GET", url |-> IRI, bearer |-> instance.token, id |-> Absent]
    ELSE [method |-> "POST", url |-> instance.actor.proxyUrl.val,
          bearer |-> instance.token, id |-> Str(IRI)]

C12_ExhaustedCallIsSilent ==
    [][ \A kind \in Kinds :
          (/\ ClientCalls(kind)
           /\ history.lastNext[kind] # NotFetched
           /\ ~Truthy(history.lastNext[kind]))
             => /\ request'.pc = "done"
                /\ request'.col = NoCol
                /\ network' = <<>>
                /\ Exhausted(Cursor(kind)')
      ]_vars

(* C13: over the sequential inbox() and outbox() calls on one client, a     *)
(* cursor that has left null never becomes null again, and no collection    *)
(* root or page is read successfully a second time.                         *)
C13_CursorMonotonic ==
    [][ /\ \A kind \in Kinds : Cursor(kind) # Null => Cursor(kind)' # Null
        /\ ~history'.refetched
      ]_vars

(* C14: getObject(id) reads id directly, that is trustedIRI(id) is true,     *)
(* exactly when the origin of id is the home origin or the configured       *)
(* local origin; a longer origin that begins with a trusted one is not      *)
(* trusted.                                                                 *)
C14_TrustedIffOriginMatches ==
    (request.op = "getObject" /\ request.pc # "idle")
        => ((network # <<>> /\ network[1].method = "GET" /\ network[1].url = request.target)
                <=> OriginTrusted(request.target))

(* C15: a call of postActivity, or of a builder that goes through it, made  *)
(* while trustedIRI rejects the actor's outbox fails at once with the       *)
(* invalid-outbox error and sends no request.                               *)
C15_UntrustedOutboxFailsSilently ==
    [][ \A b \in Builders :
          (ClientCalls(b) /\ ~TrustedIRI(A, instance.actor.outbox))
             => /\ request'.pc = "failed"
                /\ request'.err = "InvalidOutbox"
                /\ network' = <<>>
      ]_vars

C15_Witness ==
    /\ request.op = "arrive"
    /\ request.pc = "failed"
    /\ request.err = "InvalidOutbox"
    /\ network = <<>>
    /\ Origin(instance.actor.outbox) = RemoteOrigin

(* C16: a call of getObject(id) takes exactly one of three routes: when     *)
(* trustedIRI(id) holds, one GET of id; otherwise, when the actor           *)
(* advertises a proxy endpoint, one POST to that endpoint with id as the    *)
(* parameter id and no request addressed to id; otherwise the unsupported-  *)
(* capability failure and no request.  The call sends nothing further.     *)
C16_GetObjectRoutes ==
    [][ /\ ClientCalls("getObject")
            => IF TrustedIRI(A, request'.target)
               THEN /\ request'.pc = "awaitObject"
                    /\ network' = <<[method |-> "GET", url |-> request'.target,
                                     bearer |-> instance.token, id |-> Absent]>>
               ELSE IF Truthy(instance.actor.proxyUrl)
               THEN /\ request'.pc = "awaitObject"
                    /\ network' = <<[method |-> "POST",
                                     url |-> instance.actor.proxyUrl.val,
                                     bearer |-> instance.token,
                                     id |-> Str(request'.target)]>>
                    /\ instance.actor.proxyUrl.val # request'.target
               ELSE /\ request'.pc = "failed"
                    /\ request'.err = "NoProxy"
                    /\ network' = <<>>
        /\ (request.op = "getObject" /\ ~RequestIdle) => network' = network
      ]_vars

C16_Witness ==
    /\ request.op = "getObject"
    /\ request.pc = "done"
    /\ ~TrustedIRI(A, request.target)
    /\ Len(network) = 1
    /\ network[1].method = "POST"
    /\ network[1].url = instance.actor.proxyUrl.val
    /\ network[1].id = Str(request.target)

(* C17: every request sent by any operation of the Activities client that   *)
(* carries the bearer token is addressed to an identifier accepted by       *)
(* trustedIRI or to the proxy endpoint the actor advertises.                *)
C17_TokenOnlyToTrustedOrProxy ==
    \A i \in DOMAIN network :
        network[i].bearer
            => \/ TrustedIRI(A, network[i].url)
               \/ /\ Truthy(instance.actor.proxyUrl)
                  /\ network[i].url = instance.actor.proxyUrl.val

C17_Witness ==
    /\ request.op = "model"
    /\ request.pc = "done"
    /\ Len(network) = 1
    /\ network[1].bearer
    /\ network[1].url = instance.actor.uploadMedia.val
    /\ TrustedIRI(A, network[1].url)
    /\ history.fetched # {}

(* C29: a create() whose outbox is trusted and whose post the server        *)
(* answered with success does not fail at that point: it goes on to read    *)
(* the location the server returned; the call fails only when the post or   *)
(* that read fails.                                                         *)
C29_CreateResolvesAfterPost ==
    [][ (/\ request.op = "create"
         /\ request.pc = "awaitPost"
         /\ request'.err # "RemoteError")
            => request'.pc # "failed"
      ]_vars

(* C30: a postMedia or model call made while the actor advertises no        *)
(* upload-media endpoint, or one that is not trusted, fails with            *)
(* 'Missing/invalid upload media endpoint' and sends no request.            *)
C30_MissingUploadFailsWithItsError ==
    [][ \A op \in {"postMedia", "model"} :
          (/\ ClientCalls(op)
           /\ \/ instance.actor.uploadMedia.tag # "string"
              \/ ~TrustedIRI(A, instance.actor.uploadMedia.val))
             => /\ request'.pc = "failed"
                /\ request'.err = "InvalidUpload"
                /\ network' = <<>>
      ]_vars

(* C31: a getObject call and a postActivity call (through any builder)     *)
(* send at most one request; when the answer is not a success the call     *)
(* fails with an error, holds no value and sends nothing more.              *)
C31_OneRequestNoRetry ==
    [][ (request'.op \in {"getObject"} \cup Builders)
          => /\ Len(network') <= 1
             /\ (/\ request.pc \in {"awaitObject", "awaitPost"}
                 /\ request'.err = "RemoteError")
                   => /\ request'.pc = "failed"
                      /\ request'.col = NoCol
                      /\ network' = network
             /\ (request.pc = "failed" /\ request'.op = request.op
                   /\ request' # request)
                   => ClientCalls(request.op)
      ]_vars

C31_Witness ==
    /\ request.op = "getObject"
    /\ request.pc = "failed"
    /\ request.err = "RemoteError"
    /\ Len(network) = 1
    /\ network[1].method = "POST"

(***************************************************************************)
(* The friends list: FriendStatusFromActivity, FriendsSorter and           *)
(* friendsList applied to a friends collection served by the home immer.   *)
(* A publish timestamp is a string of digits of one width, compared as     *)
(* JavaScript compares strings, code unit by code unit.                    *)
(***************************************************************************)

MaxFriends == 3

Times == {<<0, 1>>, <<1, 0>>}

ToLowerCase ==
    [t \in {"Arrive", "arrive", "Leave", "Accept", "Follow", "Reject", "reject", "Create"} |->
        CASE t \in {"Arrive", "arrive"} -> "arrive"
          [] t = "Leave" -> "leave"
          [] t = "Accept" -> "accept"
          [] t = "Follow" -> "follow"
          [] t \in {"Reject", "reject"} -> "reject"
          [] t = "Create" -> "create"]

NoPlace == "none"

(* actorId: the actor is an object with an id; objectId: so is the object *)
Activity(type, actorId, objectId, target, published) ==
    [type |-> type, actorId |-> actorId, objectId |-> objectId, target |-> target,
     published |-> published]

FriendActivities ==
    {Activity(type, TRUE, FALSE, "Hub", t) : type \in {"Arrive", "arrive", "Leave"}, t \in Times}
        \cup {Activity(type, TRUE, TRUE, NoPlace, t) :
                  type \in {"Accept", "Reject", "reject", "Create"}, t \in Times}
        \cup {Activity("Follow", ids[1], ids[2], NoPlace, t) :
                  ids \in {<<TRUE, TRUE>>, <<FALSE, TRUE>>, <<FALSE, FALSE>>}, t \in Times}

RECURSIVE StringGreater(_, _)
StringGreater(s, t) ==
    IF s = <<>> \/ t = <<>> THEN s # <<>>
    ELSE IF Head(s) = Head(t) THEN StringGreater(Tail(s), Tail(t))
    ELSE Head(s) > Head(t)

(* ProfileFromActor: new URL(id) throws when the actor has no id *)
ProfileFromActor(from, hasId) == IF hasId THEN from ELSE "TypeError"

StatusOf(activity) ==
    LET type == ToLowerCase[activity.type]
    IN CASE type = "arrive" -> "friend-online"
         [] type \in {"leave", "accept"} -> "friend-offline"
         [] type = "follow" /\ activity.actorId -> "request-received"
         [] type = "follow" /\ ~activity.actorId /\ activity.objectId -> "request-sent"
         [] OTHER -> "none"

FriendStatusFromActivityNeverOnline(activity) ==
    [profile |-> IF StatusOf(activity) = "request-sent"
                 THEN ProfileFromActor("object", activity.objectId)
                 ELSE ProfileFromActor("actor", activity.actorId),
     isOnline |-> FALSE,
     locationName |-> activity.target,
     status |-> StatusOf(activity),
     _activity |-> activity]

FriendStatusFromActivity(activity) ==
    [profile |-> IF StatusOf(activity) = "request-sent"
                 THEN ProfileFromActor("object", activity.objectId)
                 ELSE ProfileFromActor("actor", activity.actorId),
     isOnline |-> StatusOf(activity) = "friend-online",
     locationName |-> activity.target,
     status |-> StatusOf(activity),
     _activity |-> activity]

FriendsSorterByRecencyOnly(a, b) ==
    IF a._activity.published = b._activity.published THEN 0
    ELSE IF StringGreater(a._activity.published, b._activity.published) THEN -1 ELSE 1

FriendsSorter(a, b) ==
    IF a.status = "friend-online" /\ b.status # "friend-online" THEN -1
    ELSE IF b.status = "friend-online" /\ a.status # "friend-online" THEN 1
    ELSE IF a._activity.published = b._activity.published THEN 0
    ELSE IF StringGreater(a._activity.published, b._activity.published) THEN -1 ELSE 1

(* Array.prototype.sort with FriendsSorter: a stable sort *)
RECURSIVE Insert(_, _)
Insert(x, sorted) ==
    IF sorted = <<>> THEN <<x>>
    ELSE IF FriendsSorter(x, Head(sorted)) < 0 THEN <<x>> \o sorted
    ELSE <<Head(sorted)>> \o Insert(x, Tail(sorted))

RECURSIVE Sort(_)
Sort(list) ==
    IF list = <<>> THEN <<>>
    ELSE Insert(list[Len(list)], Sort(SubSeq(list, 1, Len(list) - 1)))

MapFriendStatus(list) == [i \in DOMAIN list |-> FriendStatusFromActivity(list[i])]

NotReject(activity) == activity.type # "Reject"

RECURSIVE FilterNotReject(_)
FilterNotReject(list) ==
    IF list = <<>> THEN <<>>
    ELSE IF NotReject(Head(list)) THEN <<Head(list)>> \o FilterNotReject(Tail(list))
    ELSE FilterNotReject(Tail(list))

Threw(list) == \E i \in DOMAIN list : list[i].profile = "TypeError"

FriendsList(f) ==
    LET stored == MapFriendStatus(f.col)
        list == Sort(MapFriendStatus(FilterNotReject(f.col)))
    IN IF Threw(stored)
       THEN [f EXCEPT !.pc = "failed"]
       ELSE [f EXCEPT !.pc = "done", !.stored = stored, !.list = list]

(* ----- a friends collection arrives; friendsList() derives the list ----- *)

FriendsInit ==
    /\ friends = [col |-> <<>>, stored |-> <<>>, list |-> <<>>, pc |-> "idle"]
    /\ instance = Parked
    /\ request = Parked
    /\ network = Parked
    /\ history = Parked
    /\ outbox = Parked
    /\ messages = Parked
    /\ PresenceParked

FriendsUpdate ==
    /\ friends.pc = "idle"
    /\ Len(friends.col) < MaxFriends
    /\ \E activity \in FriendActivities :
           friends' = [friends EXCEPT !.col = Append(@, activity)]
    /\ UNCHANGED <<instance, request, network, history, outbox, messages>>
    /\ UNCHANGED presenceVars

CallFriendsList ==
    /\ friends.pc = "idle"
    /\ friends' = FriendsList(friends)
    /\ UNCHANGED <<instance, request, network, history, outbox, messages>>
    /\ UNCHANGED presenceVars

FriendsNext ==
    \/ FriendsUpdate
    \/ CallFriendsList

FriendsSpec == FriendsInit /\ [][FriendsNext]_vars

(* ----- vocabulary of the properties ----- *)

RECURSIVE Instant(_)
Instant(published) ==
    IF published = <<>> THEN 0
    ELSE 10 * Instant(SubSeq(published, 1, Len(published) - 1)) + published[Len(published)]

Online(entry) == entry.status = "friend-online"

Occurrences(list, x) == Cardinality({i \in DOMAIN list : list[i] = x})

C19_NoRejectInList ==
    friends.pc = "done"
        => /\ \A i \in DOMAIN friends.list :
                  ToLowerCase[friends.list[i]._activity.type] # "reject"
           /\ \A activity \in FriendActivities :
                  ToLowerCase[activity.type] # "reject"
                      => Cardinality({i \in DOMAIN friends.list :
                                          friends.list[i]._activity = activity})
                           = Occurrences(friends.col, activity)

MaxAddressees == 2

PublicAddress == <<"as:Public">>

Me == HomeOrigin \o <<"/u/me">>

Followers == Me \o <<"/followers">>

Users == {RemoteOrigin \o <<"/u/bob">>, HomeOrigin \o <<"/u/carol">>}

Arr(items) == [tag |-> "array", val |-> items]

(* an object that carries the id *)
Obj(id) == [tag |-> "object", val |-> id]

SessionActor(actor) ==
    [id |-> Me, followers |-> Followers, inbox |-> actor.inbox, outbox |-> actor.outbox,
     proxyUrl |-> actor.proxyUrl, uploadMedia |-> actor.uploadMedia]

NoDraft == [type |-> "none", actor |-> Absent, attributedTo |-> Absent,
            object |-> Absent, to |-> Absent]

Draft(type, actor, attributedTo, object, to) ==
    [type |-> type, actor |-> actor, attributedTo |-> attributedTo,
     object |-> object, to |-> to]

NoArgs == [to |-> <<>>, audience |-> "none"]

NoOutbox == [draft |-> NoDraft, via |-> "none", args |-> NoArgs, to |-> Absent]

Handed(a, via, draft, args, callerTo) ==
    [a EXCEPT !.outbox = [draft |-> draft, via |-> via, args |-> args, to |-> callerTo]]

(* activities as the friends collection retains them: actor and object are *)
(* a string id or an object carrying one                                    *)
RelActivity(id, type, actor, object, to) ==
    [id |-> id, type |-> type, actor |-> actor, object |-> object, to |-> to,
     actorId |-> actor.tag = "object", objectId |-> object.tag = "object",
     target |-> NoPlace, published |-> <<0, 1>>]

IncomingFollow(user, n) ==
    RelActivity(user \o <<"/s/follow", n>>, "Follow", Obj(user), Str(Me), Str(Me))

OutgoingFollow(user) ==
    RelActivity(Me \o <<"/s/follow">> \o user, "Follow", Str(Me), Obj(user), Str(user))

ActivitiesAccept(a, follow) ==
    PostToOutbox(Handed(a, "postActivity",
        Draft("Accept", Str(a.instance.actor.id), Absent, Str(follow.id), follow.actor),
        NoArgs, Absent))

ActivitiesFollow(a, targetId) ==
    PostToOutbox(Handed(a, "postActivity",
        Draft("Follow", Str(a.instance.actor.id), Absent, targetId, targetId),
        NoArgs, Absent))

ActivitiesReject(a, objectId, recipientId) ==
    PostToOutbox(Handed(a, "postActivity",
        Draft("Reject", Str(a.instance.actor.id), Absent, objectId, recipientId),
        NoArgs, Absent))

ActivitiesUndo(a, activity) ==
    PostToOutbox(Handed(a, "postActivity",
        Draft("Undo", Str(a.instance.actor.id), Absent, Str(activity.id), activity.to),
        NoArgs, Absent))

(* add, arrive, leave, block, create and updateProfile *)
PlainBuilders == {"add", "arrive", "leave", "block", "create", "updateProfile"}

PlainDraftWithoutActor(a, b) ==
    CASE b = "add" -> Draft("Add", Absent, Absent, Str(<<"activity">>), Absent)
      [] b = "arrive" -> Draft("Arrive", Absent, Absent, Absent, Str(a.instance.actor.followers))
      [] b = "leave" -> Draft("Leave", Absent, Absent, Absent, Str(a.instance.actor.followers))
      [] b = "block" -> Draft("Block", Absent, Absent, Str(<<"blockee">>), Absent)
      [] b = "create" -> Draft("Create", Absent, Absent, Obj(<<>>), Absent)
      [] b = "updateProfile" ->
             Draft("Update", Absent, Absent, Obj(a.instance.actor.id),
                   Str(a.instance.actor.followers))

PlainDraft(a, b) ==
    LET actor == Str(a.instance.actor.id)
    IN CASE b = "add" -> Draft("Add", actor, Absent, Str(<<"activity">>), Absent)
         [] b = "arrive" -> Draft("Arrive", actor, Absent, Absent, Str(a.instance.actor.followers))
         [] b = "leave" -> Draft("Leave", actor, Absent, Absent, Str(a.instance.actor.followers))
         [] b = "block" -> Draft("Block", actor, Absent, Str(<<"blockee">>), Absent)
         [] b = "create" -> Draft("Create", actor, Absent, Obj(<<>>), Absent)
         [] b = "updateProfile" ->
                Draft("Update", actor, Absent, Obj(a.instance.actor.id),
                      Str(a.instance.actor.followers))

ActivitiesPlain(a, b) == PostToOutbox(Handed(a, "postActivity", PlainDraft(a, b), NoArgs, Absent))

(* to.slice() and the pushes that follow it *)
AddressedFollowersOnFriendsOnly(a, to, audience) ==
    to \o (IF audience = "friends" THEN <<a.instance.actor.followers>> ELSE <<>>)
       \o (IF audience = "public" THEN <<PublicAddress>> ELSE <<>>)

Addressed(a, to, audience) ==
    to \o (IF audience \in {"friends", "public"} THEN <<a.instance.actor.followers>> ELSE <<>>)
       \o (IF audience = "public" THEN <<PublicAddress>> ELSE <<>>)

(* image, note and video: the pushes reach the copy, not the caller's array *)
ActivitiesObject(a, type, to, audience) ==
    PostToOutbox(Handed(a, "postActivity",
        Draft(type, Absent, Str(a.instance.actor.id), Absent, Arr(Addressed(a, to, audience))),
        [to |-> to, audience |-> audience], Arr(to)))

ActivitiesModel(a, to, audience) ==
    PostMedia(Handed(a, "postMedia",
        Draft("Model", Absent, Str(a.instance.actor.id), Absent, Arr(Addressed(a, to, audience))),
        [to |-> to, audience |-> audience], Arr(to)))

(* ----- the hosting page calls the builders ----- *)

ObjectTypes == [image |-> "Image", note |-> "Note", video |-> "Video"]

ToLists == UNION {[1..n -> Users] : n \in 0..MaxAddressees}

Audiences == {"direct", "friends", "public"}

OutboxInit ==
    /\ \E actor \in Actors, localImmer \in LocalImmers :
           instance = NewActivitiesClient(SessionActor(actor), HomeOrigin, TRUE, localImmer)
    /\ request = IdleRequest
    /\ network = <<>>
    /\ history = Parked
    /\ friends = Parked
    /\ outbox = NoOutbox
    /\ messages = Parked
    /\ PresenceParked

CallAccept ==
    /\ RequestIdle
    /\ \E user \in Users : BecomeA(ActivitiesAccept(Begin("accept"), IncomingFollow(user, 1)))

CallFollow ==
    /\ RequestIdle
    /\ \E user \in Users : BecomeA(ActivitiesFollow(Begin("follow"), Str(user)))

CallReject ==
    /\ RequestIdle
    /\ \E user \in Users :
           BecomeA(ActivitiesReject(Begin("reject"), Str(IncomingFollow(user, 1).id), Str(user)))

CallUndo ==
    /\ RequestIdle
    /\ \E user \in Users : BecomeA(ActivitiesUndo(Begin("undo"), OutgoingFollow(user)))

CallPlain ==
    /\ RequestIdle
    /\ \E b \in PlainBuilders : BecomeA(ActivitiesPlain(Begin(b), b))

CallObject ==
    /\ RequestIdle
    /\ \E b \in DOMAIN ObjectTypes, to \in ToLists, audience \in Audiences :
           BecomeA(ActivitiesObject(Begin(b), ObjectTypes[b], to, audience))

CallModel ==
    /\ RequestIdle
    /\ \E to \in ToLists, audience \in Audiences :
           BecomeA(ActivitiesModel(Begin("model"), to, audience))

OutboxNext ==
    \/ CallAccept
    \/ CallFollow
    \/ CallReject
    \/ CallUndo
    \/ CallPlain
    \/ CallObject
    \/ CallModel
    \/ RemoteError
    \/ PostResponse
    \/ MediaResponse

OutboxSpec == OutboxInit /\ [][OutboxNext]_vars

(* ----- vocabulary of the properties ----- *)

SessionId == Str(instance.actor.id)

Sent(req) == \E i \in DOMAIN network : network[i] = req

(* C27: every activity the builders accept, add, arrive, leave, block,      *)
(* create, follow, reject, undo and updateProfile hand to postActivity      *)
(* carries an actor field equal to the session actor's id; the objects      *)
(* that note, image and video hand to postActivity carry no actor field     *)
(* and an attributedTo field equal to the session actor's id; a POST to     *)
(* the outbox in flight is the POST of that activity or object.             *)
C27_ActivitiesCarryActor ==
    /\ outbox.via = "postActivity"
         => IF outbox.draft.type \in {"Note", "Image", "Video"}
            THEN /\ outbox.draft.actor = Absent
                 /\ outbox.draft.attributedTo = SessionId
            ELSE outbox.draft.actor = SessionId
    /\ request.pc = "awaitPost"
         => outbox.via = "postActivity" /\ network = <<OutboxPost(A)>>

C27_Witness ==
    /\ request.op = "updateProfile"
    /\ request.pc = "done"
    /\ network = <<OutboxPost(A)>>
    /\ outbox.draft.type = "Update"
    /\ outbox.draft.actor = Str(Me)
    /\ outbox.draft.object = Obj(Me)

(* C27 as stated: whatever was posted to the outbox through a builder,      *)
(* note, image and video included, carries an actor field equal to the      *)
(* session actor's id.                                                      *)
C27_EveryPostCarriesActor ==
    (outbox.via = "postActivity" /\ Sent(OutboxPost(A)))
        => outbox.draft.actor = SessionId

(* C28: the to of the object that note, image, video and model hand on is   *)
(* the caller's addressees, then the actor's followers collection iff the   *)
(* audience is friends or public, then the public address iff the audience  *)
(* is public; with audience direct it is the caller's addressees alone;     *)
(* the caller's array is left as it was passed.                             *)
C28_AddressingRule ==
    outbox.draft.type \in {"Note", "Image", "Video", "Model"}
        => LET to == outbox.args.to
               audience == outbox.args.audience
               followers == IF audience \in {"friends", "public"}
                            THEN <<instance.actor.followers>> ELSE <<>>
               public == IF audience = "public" THEN <<PublicAddress>> ELSE <<>>
           IN /\ outbox.draft.to = Arr(to \o followers \o public)
              /\ audience = "direct" => outbox.draft.to = Arr(to)
              /\ outbox.to = Arr(to)

C28_Witness ==
    /\ request.op = "note"
    /\ request.pc = "done"
    /\ network = <<OutboxPost(A)>>
    /\ outbox.args.audience = "public"
    /\ Len(outbox.args.to) = 1
    /\ outbox.draft.to = Arr(outbox.args.to \o <<Followers, PublicAddress>>)
    /\ outbox.to = Arr(outbox.args.to)

(***************************************************************************)
(* addFriend and removeFriend: the friend statuses friendsList stored last  *)
(* decide which activity is posted. friends.handle is the argument of the   *)
(* latest call, a profile id.                                               *)
(***************************************************************************)

RelActivities ==
    {IncomingFollow(user, 1) : user \in Users}
        \cup {IncomingFollow(RemoteOrigin \o <<"/u/bob">>, 2)}
        \cup {OutgoingFollow(user) : user \in Users}
        \cup {RelActivity(user \o <<"/s/arrive">>, "Arrive", Obj(user), Absent,
                          Str(user \o <<"/followers">>)) : user \in Users}

(* status.profile.id *)
ProfileId(status) ==
    IF status.profile = "actor" THEN status._activity.actor.val
    ELSE status._activity.object.val

(* Array.prototype.find: the index of the first match, 0 for undefined *)
Find(stored, userId, status) ==
    LET found == {i \in DOMAIN stored :
                      ProfileId(stored[i]) = userId /\ stored[i].status = status}
    IN IF found = {} THEN 0 ELSE CHOOSE i \in found : \A j \in found : i <= j

AddFriendAlwaysFollows(a, stored, userId) == ActivitiesFollow(a, Str(userId))

AddFriend(a, stored, userId) ==
    LET pendingRequest == Find(stored, userId, "request-received")
    IN IF pendingRequest # 0
       THEN ActivitiesAccept(a, stored[pendingRequest]._activity)
       ELSE ActivitiesFollow(a, Str(userId))

RemoveFriendOutgoingFirst(a, stored, userId) ==
    LET pendingRequest == Find(stored, userId, "request-received")
        pendingOutgoingRequest == Find(stored, userId, "request-sent")
    IN IF pendingOutgoingRequest # 0
       THEN ActivitiesUndo(a, stored[pendingOutgoingRequest]._activity)
       ELSE IF pendingRequest # 0
       THEN ActivitiesReject(a, Str(stored[pendingRequest]._activity.id), Str(userId))
       ELSE ActivitiesReject(a, Str(userId), Str(userId))

RemoveFriend(a, stored, userId) ==
    LET pendingRequest == Find(stored, userId, "request-received")
        pendingOutgoingRequest == Find(stored, userId, "request-sent")
    IN IF pendingRequest # 0
       THEN ActivitiesReject(a, Str(stored[pendingRequest]._activity.id), Str(userId))
       ELSE IF pendingOutgoingRequest # 0
       THEN ActivitiesUndo(a, stored[pendingOutgoingRequest]._activity)
       ELSE ActivitiesReject(a, Str(userId), Str(userId))

RelationsInit ==
    /\ \E actor \in Actors :
           instance = NewActivitiesClient(SessionActor(actor), HomeOrigin, TRUE, Absent)
    /\ request = IdleRequest
    /\ network = <<>>
    /\ history = Parked
    /\ friends = [col |-> <<>>, stored |-> <<>>, list |-> <<>>, pc |-> "idle",
                  handle |-> <<>>]
    /\ outbox = NoOutbox
    /\ messages = Parked
    /\ PresenceParked

(* the client half of a step; friends is set by the caller *)
BecomeClient(a) ==
    /\ instance' = a.instance
    /\ request' = a.request
    /\ network' = a.network
    /\ outbox' = a.outbox
    /\ UNCHANGED <<history, messages>>
    /\ UNCHANGED presenceVars

RelationsUpdate ==
    /\ friends.pc = "idle"
    /\ Len(friends.col) < MaxFriends
    /\ \E activity \in RelActivities :
           friends' = [friends EXCEPT !.col = Append(@, activity)]
    /\ UNCHANGED <<instance, request, network, history, outbox, messages>>
    /\ UNCHANGED presenceVars

CallAddFriend ==
    /\ RequestIdle
    /\ \E user \in Users :
           /\ friends' = [friends EXCEPT !.handle = user]
           /\ BecomeClient(AddFriend(Begin("addFriend"), friends.stored, user))

CallRemoveFriend ==
    /\ RequestIdle
    /\ \E user \in Users :
           /\ friends' = [friends EXCEPT !.handle = user]
           /\ BecomeClient(RemoveFriend(Begin("removeFriend"), friends.stored, user))

RelationsNext ==
    \/ RelationsUpdate
    \/ CallFriendsList
    \/ CallAddFriend
    \/ CallRemoveFriend
    \/ RemoteError
    \/ PostResponse

RelationsSpec == RelationsInit /\ [][RelationsNext]_vars

(* ----- vocabulary of the properties ----- *)

PendingEntries(user, status) ==
    {i \in DOMAIN friends.stored :
         /\ friends.stored[i].status = status
         /\ friends.stored[i]._activity.type = "Follow"
         /\ IF status = "request-received"
            THEN friends.stored[i]._activity.actor = Obj(user)
            ELSE friends.stored[i]._activity.object = Obj(user)}

(* a step that is a call of op on the client *)
Invokes(op) ==
    /\ RequestIdle
    /\ request'.op = op
    /\ <<request, network, outbox>>' # <<request, network, outbox>>

(* exactly one activity goes to postActivity, and in one POST when the      *)
(* outbox is trusted                                                        *)
PostsOnce(draft) ==
    /\ outbox' = [draft |-> draft, via |-> "postActivity", args |-> NoArgs, to |-> Absent]
    /\ IF TrustedIRI(A, instance.actor.outbox)
       THEN network' = <<OutboxPost(A)>> /\ request'.pc = "awaitPost"
       ELSE network' = <<>> /\ request'.pc = "failed"

MaxItems == 2

Thrown == [tag |-> "TypeError", val |-> <<>>]

Summary == Str(<<"<span>", "summary", "</span>">>)
Content == Str(<<"content">>)
ObjectContent == Str(<<"object content">>)
MediaSrc == Str(<<"https://cdn.example", "/media">>)

FriendRequestText == Str(<<"<span>", "Sent you a friend request", "</span>">>)
AcceptedText == Str(<<"<span>", "Accepted your friend request", "</span>">>)

(* type "undefined": the activity has no type; objectType "undefined": it  *)
(* has no object; actorId: the actor is an object with an id                *)
MsgActivity(type, objectType, summary, content, objectContent, inReplyTo, actorId, published) ==
    [type |-> type, objectType |-> objectType, summary |-> summary, content |-> content,
     objectContent |-> IF objectType = "undefined" THEN Absent ELSE objectContent,
     url |-> IF objectType \in {"Image", "Video"} THEN MediaSrc ELSE Absent,
     inReplyTo |-> inReplyTo, actorId |-> actorId, published |-> published]

(* a || b *)
Or(a, b) == IF Truthy(a) THEN a ELSE b

MediaTag(element, url) == Str(<<"<", element, " src=">> \o url.val \o <<">">>)

(* DOMPurify.sanitize *)
Sanitize(html) == Str(<<"sanitized">> \o html.val)

Message(activity, type, mediaType, url, html) ==
    IF ~Truthy(html) THEN Null
    ELSE [tag |-> "message", type |-> type, mediaType |-> mediaType, url |-> url,
          sender |-> "actor", timestamp |-> Instant(activity.published),
          __unsafeMessageHTML |-> html, messageHTML |-> Sanitize(html)]

MessageFromActivity(activity) ==
    LET initial == Or(activity.objectContent, activity.content)
        summary == activity.summary
    IN IF ProfileFromActor("actor", activity.actorId) = "TypeError" THEN Thrown
       ELSE CASE activity.type = "Create" /\ activity.objectType = "Note" ->
                     Message(activity, "chat", Absent, Absent, activity.objectContent)
              [] activity.type = "Create" /\ activity.objectType = "Image" ->
                     Message(activity, "media", Str(<<"image">>), activity.url,
                             MediaTag("img", activity.url))
              [] activity.type = "Create" /\ activity.objectType = "Video" ->
                     Message(activity, "media", Str(<<"video">>), activity.url,
                             MediaTag("video", activity.url))
              [] activity.type = "Create"
                   /\ activity.objectType \notin {"Note", "Image", "Video"} ->
                     Message(activity, "other", Absent, Absent, initial)
              [] activity.type \in {"Arrive", "Leave"} ->
                     Message(activity, "status", Absent, Absent, summary)
              [] activity.type = "Follow" /\ ~activity.inReplyTo ->
                     Message(activity, "status", Absent, Absent,
                             Or(summary, FriendRequestText))
              [] activity.type = "Follow" /\ activity.inReplyTo ->
                     Message(activity, "other", Absent, Absent, initial)
              [] activity.type = "Accept" ->
                     Message(activity, "status", Absent, Absent, Or(summary, AcceptedText))
              [] OTHER -> Message(activity, "other", Absent, Absent, summary)

(* desc('timestamp') *)
Desc(a, b) == b.timestamp - a.timestamp

RECURSIVE InsertDesc(_, _)
InsertDesc(x, sorted) ==
    IF sorted = <<>> THEN <<x>>
    ELSE IF Desc(x, Head(sorted)) < 0 THEN <<x>> \o sorted
    ELSE <<Head(sorted)>> \o InsertDesc(x, Tail(sorted))

RECURSIVE SortDesc(_)
SortDesc(list) ==
    IF list = <<>> THEN <<>>
    ELSE InsertDesc(list[Len(list)], SortDesc(SubSeq(list, 1, Len(list) - 1)))

MapMessage(list) == [i \in DOMAIN list |-> MessageFromActivity(list[i])]

RECURSIVE FilterMessages(_)
FilterMessages(list) ==
    IF list = <<>> THEN <<>>
    ELSE IF Head(list) # Null THEN <<Head(list)>> \o FilterMessages(Tail(list))
    ELSE FilterMessages(Tail(list))

FeedWithoutFilter(m) ==
    LET mapped == MapMessage(m.items)
    IN IF \E i \in DOMAIN mapped : mapped[i] = Thrown
       THEN [m EXCEPT !.pc = "failed"]
       ELSE [m EXCEPT !.pc = "done", !.feed = mapped]

Feed(m) ==
    LET mapped == MapMessage(m.items)
    IN IF \E i \in DOMAIN mapped : mapped[i] = Thrown
       THEN [m EXCEPT !.pc = "failed"]
       ELSE [m EXCEPT !.pc = "done", !.feed = SortDesc(FilterMessages(mapped))]

NoEvent == [tag |-> "none"]

PublishIncomingMessage(m, activity) ==
    LET message == MessageFromActivity(activity)
    IN [m EXCEPT !.incoming = <<activity>>,
                 !.threw = message = Thrown,
                 !.event = IF message \in {Thrown, Null} THEN NoEvent
                           ELSE [tag |-> "immers-client-new-message",
                                 message |-> message]]

(* ----- the activities served and delivered ----- *)

Texts == {<<Absent, Absent, Absent>>, <<Summary, Absent, Absent>>,
          <<Absent, Content, Absent>>, <<Absent, Absent, ObjectContent>>,
          <<Summary, Content, ObjectContent>>}

Shapes == {<<"Create", "Note">>, <<"Create", "Image">>, <<"Create", "Video">>,
           <<"Create", "Article">>, <<"Create", "undefined">>,
           <<"Arrive", "undefined">>, <<"Leave", "undefined">>,
           <<"Follow", "Note">>, <<"Accept", "Note">>, <<"Like", "Note">>,
           <<"undefined", "undefined">>}

MessageActivities ==
    {MsgActivity(s[1], s[2], t[1], t[2], t[3], FALSE, TRUE, <<0, 1>>) :
         s \in Shapes, t \in Texts}
        \cup {MsgActivity("Follow", "Note", t[1], t[2], t[3], TRUE, TRUE, <<0, 1>>) :
                  t \in Texts}
        \cup {MsgActivity(s[1], s[2], Summary, Absent, ObjectContent, FALSE, FALSE, <<0, 1>>) :
                  s \in Shapes}

FeedActivities ==
    {MsgActivity("Create", "Note", Absent, Absent, ObjectContent, FALSE, TRUE, t) :
         t \in Times}
        \cup {MsgActivity("Arrive", "undefined", Summary, Absent, Absent, FALSE, TRUE, <<1, 0>>),
              MsgActivity("Like", "Note", Absent, Absent, Absent, FALSE, TRUE, <<1, 0>>),
              MsgActivity("Follow", "Note", Absent, Absent, Absent, TRUE, TRUE, <<0, 1>>),
              MsgActivity("Create", "Image", Absent, Absent, Absent, FALSE, TRUE, <<0, 1>>),
              MsgActivity("Accept", "Note", Summary, Absent, Absent, FALSE, FALSE, <<0, 1>>)}

MessagesInit ==
    /\ messages = [items |-> <<>>, feed |-> <<>>, pc |-> "idle",
                   incoming |-> <<>>, threw |-> FALSE, event |-> NoEvent]
    /\ instance = Parked
    /\ request = Parked
    /\ network = Parked
    /\ history = Parked
    /\ friends = Parked
    /\ outbox = Parked
    /\ PresenceParked

MessagesUnchanged ==
    /\ UNCHANGED <<instance, request, network, history, friends, outbox>>
    /\ UNCHANGED presenceVars

CollectionsGrow ==
    /\ messages.pc = "idle"
    /\ Len(messages.items) < MaxItems
    /\ \E activity \in FeedActivities :
           messages' = [messages EXCEPT !.items = Append(@, activity)]
    /\ MessagesUnchanged

CallFeed ==
    /\ messages.pc = "idle"
    /\ messages' = Feed(messages)
    /\ MessagesUnchanged

InboxUpdate ==
    /\ \E activity \in MessageActivities :
           messages' = PublishIncomingMessage(messages, activity)
    /\ MessagesUnchanged

MessagesNext ==
    \/ CollectionsGrow
    \/ CallFeed
    \/ InboxUpdate

MessagesSpec == MessagesInit /\ [][MessagesNext]_vars

(* ----- vocabulary of the properties ----- *)

(* reading a property the object does not have gives undefined *)
Property(object, name) == IF name \in DOMAIN object THEN object[name] ELSE Absent

WellFormed(m) ==
    /\ m.tag = "message"
    /\ m.type \in {"chat", "media", "status", "other"}
    /\ m.sender = "actor"
    /\ Truthy(m.__unsafeMessageHTML)
    /\ m.messageHTML = Sanitize(m.__unsafeMessageHTML)

Delivered == messages.incoming[1]

(* C23: the list feed() returned holds a well-formed Message for each item  *)
(* that converts to one and nothing else, never null; and an                *)
(* immers-client-new-message event was dispatched for the incoming          *)
(* activity only if it converts to a non-null Message, which the event      *)
(* carries.                                                                 *)
C23_NoNullMessages ==
    /\ messages.pc = "done"
         => /\ \A i \in DOMAIN messages.feed : WellFormed(messages.feed[i])
            /\ Len(messages.feed)
                  = Cardinality({i \in DOMAIN messages.items :
                                     MessageFromActivity(messages.items[i]) # Null})
    /\ messages.event # NoEvent
         => /\ WellFormed(messages.event.message)
            /\ messages.event.message = MessageFromActivity(Delivered)

C23_Witness ==
    /\ messages.pc = "done"
    /\ Len(messages.items) = 2
    /\ Len(messages.feed) = 1
    /\ messages.feed[1].type = "chat"
    /\ messages.incoming # <<>>
    /\ MessageFromActivity(Delivered) = Null
    /\ messages.event = NoEvent

(* C24: deriving a Message never fails: feed() does not fail because of an  *)
(* item with a missing type, a missing actor or an actor without an id,     *)
(* and the handling of an incoming activity does not throw.                 *)
C24_DerivationNeverFails ==
    /\ messages.pc # "failed"
    /\ ~messages.threw

(* C25: for a Follow that carries inReplyTo, whatever its summary, content  *)
(* and object content, MessageFromActivity returns null: no event is        *)
(* dispatched for it.                                                       *)
C25_FollowBackGivesNoMessage ==
    (/\ messages.incoming # <<>>
     /\ Delivered.type = "Follow"
     /\ Delivered.inReplyTo)
        => messages.event = NoEvent

(* C26: a non-null Message has its category and content by type: Create of *)
(* Note is chat with the note's content; Create of Image or Video is media  *)
(* with mediaType image or video and mediaURL the object's url; Arrive and  *)
(* Leave are status with the summary; Follow without inReplyTo is status    *)
(* with the summary or the friend-request text; Accept is status with the   *)
(* summary or the accepted text; anything else is other with the summary.   *)
C26_CategoryAndContentByType ==
    messages.event # NoEvent
        => LET activity == Delivered
               m == messages.event.message
               html == m.__unsafeMessageHTML
           IN CASE activity.type = "Create" /\ activity.objectType = "Note" ->
                       m.type = "chat" /\ html = activity.objectContent
                [] activity.type = "Create" /\ activity.objectType = "Image" ->
                       /\ m.type = "media"
                       /\ m.mediaType = Str(<<"image">>)
                       /\ Property(m, "mediaURL") = activity.url
                [] activity.type = "Create" /\ activity.objectType = "Video" ->
                       /\ m.type = "media"
                       /\ m.mediaType = Str(<<"video">>)
                       /\ Property(m, "mediaURL") = activity.url
                [] activity.type \in {"Arrive", "Leave"} ->
                       m.type = "status" /\ html = activity.summary
                [] activity.type = "Follow" /\ ~activity.inReplyTo ->
                       /\ m.type = "status"
                       /\ html = Or(activity.summary, FriendRequestText)
                [] activity.type = "Accept" ->
                       /\ m.type = "status"
                       /\ html = Or(activity.summary, AcceptedText)
                [] OTHER -> m.type = "other" /\ html = activity.summary

(***************************************************************************)
(* blockList: the blocklist of the home immer is read to its end. In this   *)
(* specification history is the blocklist as the server holds it: how its   *)
(* root is served and, page by page, whether the page holds items. The      *)
(* items of a page are written as the id of the page. request.blocked is    *)
(* the array the call accumulates and returns.                              *)
(***************************************************************************)

BlockedIRI(a) == a.instance.homeImmer \o <<"/blocked">>

BlockPageIRI(a, i) == BlockedIRI(a) \o <<PageNames[i]>>

(* root: "items" (items inline), "absent" or "empty" (no items, a first    *)
(* reference), "bare" (an empty orderedItems and no first reference)       *)
Blocklists ==
    {[root |-> "bare", pages |-> <<>>]}
        \cup {[root |-> "items", pages |-> pages] :
                  pages \in UNION {[1..n -> {"items", "empty"}] : n \in 0..MaxPages}}
        \cup {[root |-> root, pages |-> pages] :
                  root \in {"absent", "empty"},
                  pages \in UNION {[1..n -> {"items", "empty"}] : n \in 1..MaxPages}}

LinkTo(a, list, i) ==
    IF i <= Len(list.pages) THEN Str(BlockPageIRI(a, i)) ELSE Absent

Served(a, list, IRI) ==
    IF IRI = BlockedIRI(a)
    THEN CASE list.root = "items" -> Col(IRI, "items", Absent, LinkTo(a, list, 1))
           [] list.root = "bare" -> Col(IRI, "empty", Absent, Absent)
           [] OTHER -> Col(IRI, list.root, LinkTo(a, list, 1), Absent)
    ELSE LET i == CHOOSE j \in DOMAIN list.pages : BlockPageIRI(a, j) = IRI
         IN Col(IRI, list.pages[i], Absent, LinkTo(a, list, i + 1))

IdleBlockRequest ==
    [op |-> "none", pc |-> "idle", target |-> <<>>, col |-> NoCol, err |-> "none",
     blocked |-> <<>>, warned |-> FALSE]

(* blocked.push(...col.orderedItems) *)
Push(a, col) ==
    CASE col.orderedItems = "items" -> [a EXCEPT !.request.blocked = Append(@, col.id)]
      [] col.orderedItems = "empty" -> a
      [] OTHER -> Fail(a, "TypeError")

Returned(a) == [a EXCEPT !.request.pc = "done"]

(* while (col.next) *)
Drain(a, col) ==
    IF a.request.pc = "failed" THEN a
    ELSE IF Truthy(col.next) THEN GetObject(a, col.next.val, "awaitPage")
    ELSE Returned(a)

BlockList(a) == GetObject(a, BlockedIRI(a), "awaitRoot")

BlockListFetchFailedAlwaysThrows(a) == Fail(a, "RemoteError")

(* the try / catch around the fetch of the root *)
BlockListFetchFailed(a) ==
    IF a.request.pc = "awaitRoot"
    THEN Returned([a EXCEPT !.request.warned = TRUE])
    ELSE Fail(a, "RemoteError")

BlockListAfterRoot(a, col) ==
    IF col.orderedItems = "items" THEN Drain(Push(a, col), col)
    ELSE IF col.first.tag # "string" THEN Fail(a, "TypeError")
    ELSE GetObject(a, col.first.val, "awaitFirst")

BlockListAfterFirst(a, col) == Drain(Push(a, col), col)

BlockListAfterPage(a, col) ==
    IF col.orderedItems # "items" THEN Returned(a)
    ELSE Drain(Push(a, col), col)

Holding(a, col) == [a EXCEPT !.request.col = col]

BlockInit ==
    /\ \E actor \in Actors, localImmer \in LocalImmers :
           instance = NewActivitiesClient(actor, HomeOrigin, TRUE, localImmer)
    /\ request = IdleBlockRequest
    /\ network = <<>>
    /\ history \in Blocklists
    /\ friends = Parked
    /\ outbox = Parked
    /\ messages = Parked
    /\ PresenceParked

CallBlockList ==
    /\ RequestIdle
    /\ BecomeA(BlockList([A EXCEPT !.request = [IdleBlockRequest EXCEPT !.op = "blockList",
                                                                       !.pc = "run"],
                                   !.network = <<>>]))

BlockFetchFails ==
    /\ request.pc \in {"awaitRoot", "awaitFirst", "awaitPage"}
    /\ BecomeA(BlockListFetchFailed(A))

BlockRootResponse ==
    /\ request.pc = "awaitRoot"
    /\ LET col == Served(A, history, request.target)
       IN BecomeA(BlockListAfterRoot(Holding(A, col), col))

BlockFirstResponse ==
    /\ request.pc = "awaitFirst"
    /\ LET col == Served(A, history, request.target)
       IN BecomeA(BlockListAfterFirst(Holding(A, col), col))

BlockPageResponse ==
    /\ request.pc = "awaitPage"
    /\ LET col == Served(A, history, request.target)
       IN BecomeA(BlockListAfterPage(Holding(A, col), col))

BlockNext ==
    \/ CallBlockList
    \/ BlockFetchFails
    \/ BlockRootResponse
    \/ BlockFirstResponse
    \/ BlockPageResponse

BlockSpec == BlockInit /\ [][BlockNext]_vars

(* ----- vocabulary of the properties ----- *)

(* the pages of the chain in order: the root when it holds items, then the *)
(* numbered pages                                                           *)
ChainIds(list) ==
    (IF list.root = "items" THEN <<BlockedIRI(A)>> ELSE <<>>)
        \o [i \in DOMAIN list.pages |-> BlockPageIRI(A, i)]

ChainItems(list) ==
    (IF list.root = "items" THEN <<"items">> ELSE <<>>) \o list.pages

(* the ids of the pages from the i-th on, up to the first page without     *)
(* items or without next                                                    *)
RECURSIVE AllItemsFrom(_, _)
AllItemsFrom(list, i) ==
    IF i > Len(ChainItems(list)) \/ ChainItems(list)[i] # "items" THEN <<>>
    ELSE <<ChainIds(list)[i]>> \o AllItemsFrom(list, i + 1)

(* C32: when the fetch of the blocklist root fails, blockList returns the  *)
(* empty list and does not fail; when the fetch of the first page or of a   *)
(* next page fails, blockList fails with that error and returns nothing.    *)
C32_RootFailureIsEmptyList ==
    [][ (request.op = "blockList" /\ request'.op = "blockList"
           /\ request'.col = request.col /\ request' # request)
          => /\ request.pc = "awaitRoot"
                  => /\ request'.pc = "done"
                     /\ request'.blocked = <<>>
                     /\ request'.err = "none"
             /\ request.pc \in {"awaitFirst", "awaitPage"}
                  => /\ request'.pc = "failed"
                     /\ request'.err = "RemoteError"
      ]_vars

C32_Witness ==
    /\ request.op = "blockList"
    /\ request.pc = "done"
    /\ request.warned
    /\ request.blocked = <<>>
    /\ Len(network) = 1
    /\ history.root = "items"

(* C33: for every blocklist served as a finite chain of pages, blockList   *)
(* fails only when a fetch fails, and what it returns is the ids of the     *)
(* items of the pages in page order, up to the first page without next or   *)
(* without items: the empty list for an empty blocklist.                    *)
C33_DrainsTheChain ==
    request.op = "blockList"
        => /\ request.pc = "failed" => request.err = "RemoteError"
           /\ (request.pc = "done" /\ ~request.warned)
                => request.blocked = AllItemsFrom(history, 1)

(***************************************************************************)
(* corsProxyFetch. In this specification instance is the ImmersClient: its  *)
(* localImmer (a host), whether it is logged in and the proxyUrl the actor  *)
(* advertises. A url is "https://" followed by a host and a path; headers   *)
(* are the set of their names.                                              *)
(***************************************************************************)

Https(host) == <<"https://">> \o host

LocalHost == <<"local.example">>

HomeProxy == Https(<<"home.example", "/proxy">>)

CorsUrls ==
    {Https(LocalHost \o <<"/o/immer">>), Https(LocalHost \o <<"/u/bob">>),
     Https(<<"remote.example", "/.well-known/webfinger">>),
     Https(<<"remote.example", "/nodeinfo">>)}

CorsClients ==
    {[localImmer |-> localImmer, loggedIn |-> loggedIn, proxyUrl |-> proxyUrl] :
         localImmer \in {Absent, Str(LocalHost)},
         loggedIn \in BOOLEAN,
         proxyUrl \in {Absent, Str(HomeProxy)}}

IdleFetch == [op |-> "none", pc |-> "idle", target |-> <<>>, headers |-> {},
              result |-> "none", err |-> "none"]

(* this.activities?.actor?.endpoints?.proxyUrl *)
HomeProxyOf(client) == IF client.loggedIn THEN client.proxyUrl ELSE Absent

WindowFetch(a, url, headers, pc) ==
    Suspend(Fetch(a, [url |-> url, headers |-> headers]), pc, a.request.target)

PlainFetch(a) == WindowFetch(a, a.request.target, a.request.headers, "awaitFetch")

CorsProxyFetch(a) ==
    LET client == a.instance
        url == a.request.target
        headers == a.request.headers
    IN IF Truthy(client.localImmer)
       THEN WindowFetch(a, IF StartsWith(url, Https(client.localImmer.val)) THEN url
                           ELSE Https(client.localImmer.val) \o <<"/proxy/">> \o url,
                        headers, "awaitFetch")
       ELSE IF Truthy(HomeProxyOf(client))
       THEN IF Property(client, "store") = Absent
            THEN PlainFetch(a)
            ELSE WindowFetch(a, HomeProxyOf(client).val \o <<"/">> \o url,
                             headers \cup {"Authorization"}, "awaitHomeProxy")
       ELSE PlainFetch(a)

(* outcome: "ok", "notOk" (a response that is not a success) or            *)
(* "rejected" (no response)                                                 *)
FetchSettled(a, outcome) ==
    IF a.request.pc = "awaitHomeProxy"
    THEN IF outcome = "ok" THEN [a EXCEPT !.request.pc = "done", !.request.result = outcome]
         ELSE PlainFetch(a)
    ELSE IF outcome = "rejected" THEN Fail(a, "TypeError")
    ELSE [a EXCEPT !.request.pc = "done", !.request.result = outcome]

CorsInit ==
    /\ instance \in CorsClients
    /\ request = IdleFetch
    /\ network = <<>>
    /\ history = Parked
    /\ friends = Parked
    /\ outbox = Parked
    /\ messages = Parked
    /\ PresenceParked

CallCorsProxyFetch ==
    /\ RequestIdle
    /\ \E url \in CorsUrls, headers \in {{}, {"Accept"}} :
           BecomeA(CorsProxyFetch([A EXCEPT !.request = [IdleFetch EXCEPT
                                                             !.op = "corsProxyFetch",
                                                             !.pc = "run",
                                                             !.target = url,
                                                             !.headers = headers],
                                            !.network = <<>>]))

FetchSettles ==
    /\ request.pc \in {"awaitFetch", "awaitHomeProxy"}
    /\ \E outcome \in {"ok", "notOk", "rejected"} : BecomeA(FetchSettled(A, outcome))

CorsNext ==
    \/ CallCorsProxyFetch
    \/ FetchSettles

CorsSpec == CorsInit /\ [][CorsNext]_vars

(* C34: corsProxyFetch goes to the local immer when one is configured (the  *)
(* url itself when it is on the local immer, the local proxy otherwise);    *)
(* else, when the client is logged in and the actor advertises a proxy, to  *)
(* that home proxy; it fetches the url plainly only when neither is         *)
(* available or after the home proxy request failed.                        *)
C34_RouteOrder ==
    [][ (RequestIdle /\ request'.op = "corsProxyFetch" /\ request' # request)
          => LET url == request'.target
             IN /\ Len(network') = 1
                /\ IF Truthy(instance.localImmer)
                   THEN network'[1].url
                          \in {url, Https(instance.localImmer.val) \o <<"/proxy/">> \o url}
                   ELSE IF instance.loggedIn /\ Truthy(instance.proxyUrl)
                   THEN network'[1].url = instance.proxyUrl.val \o <<"/">> \o url
                   ELSE network'[1].url = url
      ]_vars

(***************************************************************************)
(* Sessions: restoreSession, loginWithToken, #setupAfterLogin and           *)
(* disconnect, with the listeners that #setupAfterLogin attaches to the     *)
(* socket it creates.  Here credential is the stored credential, tasks the  *)
(* hosting application's call, activities and streaming name the socket of  *)
(* the session that created them, and posted lists the listener and         *)
(* publisher runs of the step with the event each one dispatches.           *)
(***************************************************************************)

MaxLogins == 2

LoginSockets == 1..MaxLogins

ViewFriends == "viewFriends"

ViewPublic == "viewPublic"

SessionScopes == {ViewFriends, ViewPublic}

(* how tokenToActor settles: it rejects, or resolves to nothing, to an      *)
(* actor, or to an actor whose id is not a URL                              *)
TokenActors == {"rejected", "none", "actor", "actorWithoutId"}

NoStoredCredential == [present |-> FALSE, authorizedScopes |-> {}]

ClosedSocket == [live |-> FALSE, friendsListeners |-> 0, inboxListeners |-> 0]

IdleCall == [op |-> "none", pc |-> "idle", ret |-> "none", err |-> "none"]

Run(name, socket, event) == [run |-> name, socket |-> socket, event |-> event]

Session == [connected |-> connected, credential |-> credential,
            activities |-> activities, streaming |-> streaming,
            sockets |-> sockets, call |-> tasks, runs |-> <<>>]

BecomeSession(c) ==
    /\ connected' = c.connected
    /\ credential' = c.credential
    /\ activities' = c.activities
    /\ streaming' = c.streaming
    /\ sockets' = c.sockets
    /\ tasks' = c.call
    /\ posted' = c.runs
    /\ UNCHANGED <<place, arrivals, lastArrive>>
    /\ UNCHANGED clientVars

(* #publishFriendsUpdate: friendsList() reads this.activities; the event is *)
(* dispatched when the friends list has been fetched                        *)
PublishFriendsUpdate(c, socket, fetched) ==
    [c EXCEPT !.runs = Append(@, Run("publishFriendsUpdate", socket,
                                     IF c.activities # Undefined /\ fetched
                                     THEN "immers-client-friends-update"
                                     ELSE "none"))]

UnusedSocket(c) ==
    CHOOSE s \in LoginSockets :
        /\ ~c.sockets[s].live
        /\ \A r \in LoginSockets : r < s => c.sockets[r].live

ImmersSocketWithListeners(scopes) ==
    [live |-> TRUE,
     friendsListeners |-> IF ViewFriends \in scopes THEN 1 ELSE 0,
     inboxListeners |-> IF ViewPublic \in scopes THEN 1 ELSE 0]

SetupAfterLoginSteps(c, actor, fetched) ==
    LET s == UnusedSocket(c)
        scopes == c.credential.authorizedScopes
        c1 == [c EXCEPT !.connected = TRUE]
        c2 == [c1 EXCEPT !.activities = s, !.streaming = s,
                         !.sockets[s] = ImmersSocketWithListeners(scopes)]
        c3 == IF ViewFriends \in scopes THEN PublishFriendsUpdate(c2, Undefined, fetched)
              ELSE c2
    IN IF actor = "actorWithoutId" THEN [c1 EXCEPT !.call.err = "TypeError"]
       ELSE [c3 EXCEPT !.runs = <<Run("setupAfterLogin", Undefined,
                                      "immers-client-connected")>> \o @]

Returns(c, ret) == [c EXCEPT !.call.pc = "done", !.call.ret = ret, !.call.err = "none"]

RestoreSessionTry(c) ==
    IF ~c.credential.present THEN Returns(c, "false")
    ELSE [c EXCEPT !.call.pc = "awaitActor"]

RestoreSessionAfterActor(c, actor, fetched) ==
    IF actor \in {"rejected", "none"} THEN Returns(c, "false")
    ELSE LET x == SetupAfterLoginSteps(c, actor, fetched)
         IN IF x.call.err # "none" THEN Returns(x, "false")
            ELSE Returns(x, "true")

DisconnectCurrent(c) ==
    IF c.streaming = Undefined
    THEN [c EXCEPT !.call.pc = "failed", !.call.err = "TypeError"]
    ELSE [c EXCEPT !.sockets[c.streaming] = ClosedSocket,
                   !.streaming = Undefined,
                   !.activities = Undefined,
                   !.connected = FALSE,
                   !.call.pc = "done",
                   !.runs = <<Run("disconnect", Undefined, "immers-client-disconnected")>>]

RECURSIVE FriendsUpdateOn(_, _, _)
FriendsUpdateOn(c, s, fetched) ==
    IF s = 0 THEN c
    ELSE LET x == FriendsUpdateOn(c, s - 1, fetched)
         IN IF c.sockets[s].live /\ c.sockets[s].friendsListeners >= 1
            THEN PublishFriendsUpdate(x, s, fetched)
            ELSE x

SessionInit ==
    /\ connected = FALSE
    /\ credential \in {NoStoredCredential} \cup
                      {[present |-> TRUE, authorizedScopes |-> scopes] :
                           scopes \in SUBSET SessionScopes}
    /\ activities = Undefined
    /\ streaming = Undefined
    /\ sockets = [s \in LoginSockets |-> ClosedSocket]
    /\ tasks = IdleCall
    /\ posted = <<>>
    /\ place = Parked
    /\ arrivals = Parked
    /\ lastArrive = Parked
    /\ ClientParked

SessionIdle == tasks.pc # "awaitActor"

SessionCall(op) == [Session EXCEPT !.call = [IdleCall EXCEPT !.op = op, !.pc = "run"]]

SessionRestore ==
    /\ SessionIdle
    /\ BecomeSession(RestoreSessionTry(SessionCall("restoreSession")))

SessionLoginWithToken ==
    /\ SessionIdle
    /\ \E scopes \in SUBSET SessionScopes :
           BecomeSession(RestoreSessionTry(
               [SessionCall("loginWithToken") EXCEPT
                    !.credential = [present |-> TRUE, authorizedScopes |-> scopes]]))

SessionActorResponse ==
    /\ tasks.pc = "awaitActor"
    /\ \E actor \in TokenActors, fetched \in BOOLEAN :
           /\ actor = "actor" => \E s \in LoginSockets : ~sockets[s].live
           /\ BecomeSession(RestoreSessionAfterActor(Session, actor, fetched))

SessionDisconnect ==
    /\ SessionIdle
    /\ BecomeSession(DisconnectCurrent(SessionCall("disconnect")))

FriendsChanged ==
    /\ \E s \in LoginSockets : sockets[s].live
    /\ \E fetched \in BOOLEAN :
           BecomeSession(FriendsUpdateOn(Session, MaxLogins, fetched))

SessionNext ==
    \/ SessionRestore
    \/ SessionLoginWithToken
    \/ SessionActorResponse
    \/ SessionDisconnect
    \/ FriendsChanged

SessionSpec == SessionInit /\ [][SessionNext]_vars

SessionEstablished == connected /\ activities # Undefined /\ streaming # Undefined

(* C35: a call of restoreSession or loginWithToken made by a disconnected   *)
(* client returns (it never fails); it returns true exactly when afterwards *)
(* connected is true and activities and streaming are set, and when it      *)
(* returns false the client is still disconnected.                          *)
C35_TrueIffEstablished ==
    [][ (/\ ~connected
         /\ tasks'.op \in {"restoreSession", "loginWithToken"}
         /\ tasks' # tasks
         /\ tasks'.pc # "awaitActor")
          => /\ tasks'.pc = "done"
             /\ tasks'.ret \in {"true", "false"}
             /\ tasks'.ret = "true" <=> SessionEstablished'
             /\ tasks'.ret = "false" => ~connected'
      ]_vars

LiveWithListeners ==
    {s \in LoginSockets : sockets[s].live
                            /\ sockets[s].friendsListeners + sockets[s].inboxListeners >= 1}

NotifiedRuns(runs) == {i \in DOMAIN runs : runs[i].socket # Undefined}

(* C39: at most one socket created by the client is live with listeners     *)
(* attached, and one friends-changed notification runs the friends          *)
(* publisher once, so that it yields at most one                            *)
(* immers-client-friends-update event.                                      *)
C39_OneLiveSocket ==
    [][ /\ Cardinality(LiveWithListeners') <= 1
        /\ Cardinality(NotifiedRuns(posted')) <= 1
      ]_vars

(***************************************************************************)
(* feed() over the paginated inbox and outbox: one page of each per call,   *)
(* with the cursors that inbox() and outbox() keep between calls.  The      *)
(* request also carries kind, the collection being paged, inboxCol, what    *)
(* inbox() returned, and feed, the list returned.                           *)
(***************************************************************************)

IdleFeedRequest ==
    [op |-> "none", pc |-> "idle", target |-> <<>>, col |-> NoCol, err |-> "none",
     kind |-> "none", inboxCol |-> NoCol, feed |-> <<>>]

(* the activities a served page holds: inbox pages an older note and a     *)
(* like, outbox pages a newer note                                          *)
OrderedItems(col) ==
    IF col.orderedItems # "items" THEN <<>>
    ELSE IF \E i \in DOMAIN col.id : col.id[i] = "/inbox"
    THEN <<MsgActivity("Create", "Note", Absent, Absent, ObjectContent, FALSE, TRUE, <<0, 1>>),
           MsgActivity("Like", "Note", Absent, Absent, Absent, FALSE, TRUE, <<1, 0>>)>>
    ELSE <<MsgActivity("Create", "Note", Absent, Absent, ObjectContent, FALSE, TRUE, <<1, 0>>)>>

FeedReturn(a) ==
    LET inboxCol == a.request.inboxCol
        outboxCol == a.request.col
        fed == Feed([items |-> OrderedItems(inboxCol) \o OrderedItems(outboxCol),
                     feed |-> <<>>, pc |-> "run"])
    IN IF ~inboxCol.defined \/ inboxCol.orderedItems = "absent" THEN Fail(a, "TypeError")
       ELSE IF ~outboxCol.defined \/ outboxCol.orderedItems = "absent"
       THEN Fail(a, "TypeError")
       ELSE IF fed.pc = "failed" THEN Fail(a, "TypeError")
       ELSE [a EXCEPT !.request.pc = "done", !.request.feed = fed.feed]

FeedAfterOutbox(a) ==
    IF a.request.pc # "done" THEN a ELSE FeedReturn(a)

FeedAfterInbox(a) ==
    IF a.request.pc # "done" THEN a
    ELSE FeedAfterOutbox(Page([a EXCEPT !.request.kind = "outbox",
                                        !.request.inboxCol = a.request.col,
                                        !.request.col = NoCol,
                                        !.request.pc = "run"], "outbox"))

FeedOfPages(a) == FeedAfterInbox(Page([a EXCEPT !.request.kind = "inbox"], "inbox"))

FeedResume(a) ==
    IF a.request.kind = "inbox" THEN FeedAfterInbox(a) ELSE FeedAfterOutbox(a)

FeedInit ==
    /\ \E actor \in Actors, localImmer \in LocalImmers :
           instance = NewActivitiesClient(actor, HomeOrigin, TRUE, localImmer)
    /\ request = IdleFeedRequest
    /\ network = <<>>
    /\ history = [fetched |-> {}, refetched |-> FALSE,
                  lastNext |-> [k \in Kinds |-> NotFetched]]
    /\ friends = Parked
    /\ outbox = Parked
    /\ messages = Parked
    /\ PresenceParked

CallFeedOfPages ==
    /\ RequestIdle
    /\ BecomeA(FeedOfPages([A EXCEPT !.request = [IdleFeedRequest EXCEPT !.op = "feed",
                                                                         !.pc = "run"],
                                     !.network = <<>>]))

FeedRemoteError ==
    /\ request.pc \in {"awaitRoot", "awaitFirst", "awaitPage"}
    /\ BecomeA(Fail(A, "RemoteError"))

FeedRootResponse ==
    /\ request.pc = "awaitRoot"
    /\ \E col \in RootCols(A, request.kind) :
           BecomeA(FeedResume(PageAfterRoot(Receive(A, request.kind, col),
                                            request.kind, col)))

FeedPageResponse ==
    /\ request.pc \in {"awaitFirst", "awaitPage"}
    /\ \E col \in PageCols(A, request.kind, request.target) :
           BecomeA(FeedResume(Finish(Receive(A, request.kind, col), request.kind, col)))

FeedNext ==
    \/ CallFeedOfPages
    \/ FeedRemoteError
    \/ FeedRootResponse
    \/ FeedPageResponse

FeedSpec == FeedInit /\ [][FeedNext]_vars

SortedDesc(list) ==
    \A i, j \in DOMAIN list : i < j => list[i].timestamp >= list[j].timestamp

ServedWithoutItems(req) ==
    \/ req.inboxCol.defined /\ req.inboxCol.orderedItems = "absent"
    \/ req.col.defined /\ req.col.orderedItems = "absent"

(* C37: a call of feed() fails only when a request to the network fails or  *)
(* a collection is served without orderedItems; otherwise it completes, in  *)
(* every state of the two cursors (fresh, at a page, Exhausted), and what   *)
(* it returns is a list of messages sorted by timestamp, most recent first. *)
C37_FeedCompletesSorted ==
    [][ (request'.op = "feed" /\ request' # request)
          => /\ request'.pc = "failed"
                  => \/ request'.err \in {"RemoteError", "NoProxy"}
                     \/ ServedWithoutItems(request')
             /\ request'.pc = "done"
                  => /\ SortedDesc(request'.feed)
                     /\ \A i \in DOMAIN request'.feed : request'.feed[i] # Null
      ]_vars

(***************************************************************************)
(* resolveProfileIRI and its cache.  Here instance is the client's store    *)
(* (cachedHandleIRIs), request the lookups in progress, one per slot, and   *)
(* network the requests the step sends.  A handle is username[immer].       *)
(***************************************************************************)

MaxLookups == 2

Lookups == 1..MaxLookups

Handle(username, immer) == <<username, "[", immer, "]">>

Handles ==
    {Handle("alice", "home.example"), Handle("bob", "remote.example"),
     Handle("carol", "remote.example")}

ParseHandle(handle) == [username |-> handle[1], immer |-> handle[3]]

WebfingerURL(handle) ==
    LET parsed == ParseHandle(handle)
    IN Https(<<parsed.immer, "/.well-known/webfinger?resource=acct:",
               parsed.username, "@", parsed.immer>>)

(* the href of the rel=self link that the immer of the handle serves *)
SelfLink(handle) ==
    LET parsed == ParseHandle(handle)
    IN Https(<<parsed.immer, "/u/", parsed.username>>)

(* how the webfinger request settles: a document with a self link, a        *)
(* document without one, or no document (request or parsing failed)         *)
Fingers == {"selfLink", "noSelfLink", "failed"}

IdleLookup == [pc |-> "idle", handle |-> <<>>, ret |-> Absent]

R == [store |-> instance, lookups |-> request, sent |-> <<>>]

BecomeR(r) ==
    /\ instance' = r.store
    /\ request' = r.lookups
    /\ network' = r.sent
    /\ UNCHANGED <<history, friends, outbox, messages>>
    /\ UNCHANGED presenceVars

CacheHandleIRIAlone(r, handle, iri) ==
    [r EXCEPT !.store.cachedHandleIRIs = [h \in Handles |-> IF h = handle THEN Str(iri) ELSE Absent]]

CacheHandleIRI(r, handle, iri) ==
    [r EXCEPT !.store.cachedHandleIRIs[handle] = Str(iri)]

(* the webfinger document is requested through corsProxyFetch, which sends *)
(* one request for it                                                      *)
ResolveProfileIRI(r, k, handle) ==
    IF Truthy(r.store.cachedHandleIRIs[handle])
    THEN [r EXCEPT !.lookups[k] = [pc |-> "done", handle |-> handle,
                                   ret |-> r.store.cachedHandleIRIs[handle]]]
    ELSE [r EXCEPT !.lookups[k] = [pc |-> "awaitFinger", handle |-> handle, ret |-> Absent],
                   !.sent = Append(@, [url |-> WebfingerURL(handle)])]

ResolveAfterFinger(r, k, finger) ==
    LET handle == r.lookups[k].handle
        iri == IF finger = "selfLink" THEN Str(SelfLink(handle)) ELSE Absent
        stored == IF Truthy(iri) THEN CacheHandleIRI(r, handle, iri.val) ELSE r
    IN [stored EXCEPT !.lookups[k].pc = "done", !.lookups[k].ret = iri]

ResolveInit ==
    /\ instance = [cachedHandleIRIs |-> [h \in Handles |-> Absent]]
    /\ request = [k \in Lookups |-> IdleLookup]
    /\ network = <<>>
    /\ history = Parked
    /\ friends = Parked
    /\ outbox = Parked
    /\ messages = Parked
    /\ PresenceParked

CallResolveProfileIRI ==
    \E k \in Lookups, handle \in Handles :
        /\ request[k].pc # "awaitFinger"
        /\ BecomeR(ResolveProfileIRI(R, k, handle))

FingerResponse ==
    \E k \in Lookups, finger \in Fingers :
        /\ request[k].pc = "awaitFinger"
        /\ BecomeR(ResolveAfterFinger(R, k, finger))

ResolveNext ==
    \/ CallResolveProfileIRI
    \/ FingerResponse

ResolveSpec == ResolveInit /\ [][ResolveNext]_vars

Cached(handle) == instance.cachedHandleIRIs[handle]

Resolves(k, handle) ==
    /\ request[k].pc # "awaitFinger"
    /\ request'[k].handle = handle
    /\ request'[k] # request[k] \/ network' # <<>>

(* C38: a call of resolveProfileIRI for a handle whose lookup has succeeded *)
(* returns the stored identifier at once and sends nothing; a call for any  *)
(* other handle sends one webfinger request; a lookup that succeeds returns *)
(* the identifier and stores it, a lookup that fails returns undefined and  *)
(* leaves the store as it was; no step changes or drops an identifier that  *)
(* is stored.                                                               *)
C38_CacheOnlySuccess ==
    [][ /\ \A k \in Lookups, handle \in Handles :
              (Resolves(k, handle) /\ request'[k].pc = "awaitFinger"
                 /\ request[k].pc # "awaitFinger")
                  => /\ ~Truthy(Cached(handle))
                     /\ network' = <<[url |-> WebfingerURL(handle)]>>
                     /\ instance' = instance
        /\ \A k \in Lookups, handle \in Handles :
              (Truthy(Cached(handle)) /\ request[k].pc # "awaitFinger"
                 /\ request'[k] # request[k] /\ request'[k].handle = handle)
                  => /\ request'[k].pc = "done"
                     /\ request'[k].ret = Cached(handle)
                     /\ network' = <<>>
                     /\ instance' = instance
        /\ \A k \in Lookups :
              (request[k].pc = "awaitFinger" /\ request'[k].pc = "done")
                  => /\ network' = <<>>
                     /\ \/ /\ request'[k].ret = Str(SelfLink(request[k].handle))
                           /\ instance'.cachedHandleIRIs[request[k].handle] = request'[k].ret
                        \/ /\ request'[k].ret = Absent
                           /\ instance' = instance
        /\ \A handle \in Handles :
              Truthy(Cached(handle))
                  => instance'.cachedHandleIRIs[handle] = Cached(handle)
      ]_vars

C38_Witness ==
    \E k, j \in Lookups, handle, other \in Handles :
        /\ handle # other
        /\ request[k] = [pc |-> "done", handle |-> handle, ret |-> Str(SelfLink(handle))]
        /\ Cached(handle) = Str(SelfLink(handle))
        /\ network = <<>>
        /\ request[j] = [pc |-> "done", handle |-> other, ret |-> Absent]
        /\ Cached(other) = Absent
====
